---- MODULE Spec2Model ----
(***************************************************************************)
(* Dimension / fact-table lifecycle of niamoto's data marts.               *)
(*                                                                         *)
(* The database is the variable db: the tables of the dimensions schema,   *)
(* the dimension_registry rows, the tables of the fact-tables schema, the  *)
(* fact_table_registry rows and the rows stored in each dimension table.   *)
(* Dimension instances are in-memory values built by the constructors.     *)
(* Every operation is one action; what the caller observes of it (value    *)
(* returned or exception raised) is recorded in the variable result.       *)
(* Where calls of different processes interleave, callers holds the        *)
(* position of each process inside its call.  The objects of the calling   *)
(* process that outlive a call (the type registry, the dict shared as the  *)
(* default argument of the constructor, the instances the caller holds)    *)
(* are the variable process.                                               *)
(***************************************************************************)
EXTENDS Integers, Sequences, FiniteSets, TLC

VARIABLES db, model_dict, result, callers, process

vars == <<db, model_dict, result, callers, process>>

(***************************************************************************)
(* Bounds of the model.                                                    *)
(***************************************************************************)
\* number of fact-table names the callers use: "f1" .. "f<MaxFacts>"
MaxFacts == 1
\* largest number of dimensions of a declared model
MaxDeclDims == 2
\* largest index label of a populate batch
MaxKey == 1
\* largest number of rows of a populate batch
MaxBatch == 1

\* the dimension names the callers use
DimNames == {"d1", "d2"}

AllFactNames == <<"f1", "f2", "f3">>
FactNames == {AllFactNames[i] : i \in 1..(IF MaxFacts < 3 THEN MaxFacts ELSE 3)}

\* An optional value (Python None / a missing dict key) is the empty set,
\* a present value v is {v}.
NoValue == {}
Some(v) == {v}
TheValue(o) == CHOOSE v \in o : TRUE

(***************************************************************************)
(* Dimension types and instances.                                          *)
(***************************************************************************)
PK_COLUMN_NAME == "id"

TaxonRankEnum ==
  <<"REGNUM", "PHYLUM", "CLASSIS", "ORDO", "FAMILIA", "GENUS", "SPECIES",
    "INFRASPECIES">>

Lower(s) ==
  CASE s = "REGNUM" -> "regnum" [] s = "PHYLUM" -> "phylum"
    [] s = "CLASSIS" -> "classis" [] s = "ORDO" -> "ordo"
    [] s = "FAMILIA" -> "familia" [] s = "GENUS" -> "genus"
    [] s = "SPECIES" -> "species" [] s = "INFRASPECIES" -> "infraspecies"

Column(n, t) == [name |-> n, type |-> t]

\* the cut-points a caller configures: ([cuts], [labels])
FirstCuts == [cuts |-> <<10>>, labels |-> <<"low", "high">>]

\* DIMENSION_TYPE_REGISTRY after the import of the dimension modules: the
\* keys of the classes whose get_key() does not raise NotImplementedError.
DIMENSION_TYPE_REGISTRY == {"TAXON_DIMENSION", "RASTER_DIMENSION"}

\* dict[k] = v on a Python dict
Put(dict, k, v) ==
  [x \in DOMAIN dict \cup {k} |-> IF x = k THEN v ELSE dict[x]]

\* A class statement under the metaclass DimensionMeta: the name of the
\* class and what its get_key() and get_description() return (NoValue when
\* they raise NotImplementedError).
ClassStatement(name, key, description) ==
  [class |-> name, key |-> key, description |-> description]

\* DimensionMeta.__init__: DIMENSION_TYPE_REGISTRY[cls.get_key()] = {...},
\* unless get_key() or get_description() raises NotImplementedError
DimensionMeta_init(registry, cls) ==
  IF cls.key = NoValue \/ cls.description = NoValue
  THEN registry
  ELSE Put(registry, TheValue(cls.key),
           [class |-> cls.class, description |-> TheValue(cls.description)])

\* the class statements executed by the import of the dimension modules
ImportedClasses ==
  << ClassStatement("BaseDimension", NoValue, NoValue),
     ClassStatement("TaxonDimension", Some("TAXON_DIMENSION"),
                    Some("Taxon dimension.")),
     ClassStatement("RasterDimension", Some("RASTER_DIMENSION"),
       Some("Raster dimension, values are extracted from a registered raster.")) >>

RECURSIVE RegistryAfter(_, _, _)
RegistryAfter(registry, classes, i) ==
  IF i > Len(classes) THEN registry
  ELSE RegistryAfter(DimensionMeta_init(registry, classes[i]), classes, i + 1)

\* BaseDimension.__init__: properties['column_labels'] = column_labels.
\* exists is the flag self._exists: False, and True only when the metadata
\* of the process already holds a table of this name, that is when the
\* process has built an instance of this name before (see IsCreated).
BaseDimension(key, name, columns, label_col, properties, column_labels) ==
  [ name |-> name,
    exists |-> FALSE,
    type_key |-> key,
    columns |-> columns,
    label_col |-> label_col,
    cuts |-> properties.cuts,
    properties |-> [properties EXCEPT !.column_labels = Some(column_labels)],
    column_labels |-> column_labels ]

\* the default argument properties={}: no 'cuts' key, no 'column_labels' key
EmptyProperties == [cuts |-> NoValue, column_labels |-> NoValue]

TaxonDimension(name) ==
  BaseDimension("TAXON_DIMENSION", name,
    <<Column("full_name", "String"), Column("rank_name", "String"),
      Column("rank", "String")>>
      \o [i \in 1..Len(TaxonRankEnum) |->
            Column(Lower(TaxonRankEnum[i]), "String")],
    "full_name", EmptyProperties, <<>>)

\* The process after the import of the dimension modules: the type
\* registry, the dict object that is the default argument properties={} of
\* BaseDimension.__init__, and no instance held by the caller.
InitProcess ==
  [ registry |-> RegistryAfter(<<>>, ImportedClasses, 1),
    default_properties |-> EmptyProperties,
    held |-> <<>> ]

\* cuts is NoValue (None) or Some(([cuts], [labels]))
RasterDimension(raster_name, cuts) ==
  BaseDimension("RASTER_DIMENSION", raster_name,
    <<Column(raster_name, "Float"), Column("pixel_count", "Integer")>>
      \o (IF cuts # NoValue THEN <<Column("category", "String")>> ELSE <<>>),
    raster_name,
    [cuts |-> cuts, column_labels |-> NoValue],
    <<>>)

\* the dimension instances callers construct directly
Instances ==
  {TaxonDimension(n) : n \in DimNames}
    \cup {RasterDimension(n, c) :
            n \in DimNames, c \in {NoValue, Some(FirstCuts)}}

(***************************************************************************)
(* The store: statements, each returning the database after the statement  *)
(* and the error it raised ("" when it raised none).                       *)
(***************************************************************************)
EmptyDb ==
  [ dimension_tables |-> {},
    dimension_registry |-> {},
    fact_tables |-> {},
    fact_table_registry |-> {},
    rows |-> [n \in DimNames |-> {}],
    fact_rows |-> [f \in {AllFactNames[i] : i \in DOMAIN AllFactNames} |-> {}] ]

TableNames(d) == {t.name : t \in d.dimension_tables}
FactTableNames(d) == {t.name : t \in d.fact_tables}
RegisteredNames(d) == {r.name : r \in d.dimension_registry}

Range(s) == {s[i] : i \in DOMAIN s}

Ok(d) == [db |-> d, err |-> ""]
Raise(d, e) == [db |-> d, err |-> e]

\* self.table.create(connection)
TableCreate(d, dim) ==
  IF dim.name \in TableNames(d)
  THEN Raise(d, "ProgrammingError")
  ELSE Ok([d EXCEPT
            !.dimension_tables =
                @ \cup {[name |-> dim.name,
                         columns |-> <<Column(PK_COLUMN_NAME, "Integer")>>
                                       \o dim.columns]},
            !.rows[dim.name] = {}])

\* meta.dimension_registry.insert(); the name of a registry row is unique
RegistryInsert(d, dim) ==
  IF dim.name \in RegisteredNames(d)
  THEN Raise(d, "IntegrityError")
  ELSE Ok([d EXCEPT
            !.dimension_registry =
                @ \cup {[name |-> dim.name,
                         dimension_type_key |-> dim.type_key,
                         label_column |-> dim.label_col,
                         properties |-> dim.properties]}])

\* a variant that drops the table whatever references it
TableDropReferenced(d, dim) ==
  IF dim.name \notin TableNames(d)
  THEN Raise(d, "ProgrammingError")
  ELSE Ok([d EXCEPT
            !.dimension_tables = {t \in @ : t.name # dim.name},
            !.rows[dim.name] = {}])

\* self.table.drop(connection): a table that a fact table references
\* through a foreign key cannot be dropped
TableDrop(d, dim) ==
  IF dim.name \notin TableNames(d)
  THEN Raise(d, "ProgrammingError")
  ELSE IF \E f \in d.fact_tables : dim.name \in Range(f.dimensions)
  THEN Raise(d, "InternalError")
  ELSE Ok([d EXCEPT
            !.dimension_tables = {t \in @ : t.name # dim.name},
            !.rows[dim.name] = {}])

\* meta.dimension_registry.delete().where(name == self.name)
RegistryDelete(d, dim) ==
  Ok([d EXCEPT !.dimension_registry = {r \in @ : r.name # dim.name}])

\* The statement number `at` of a transaction: the store may fail it
\* (fail = at) before it takes effect; a failed transaction runs no further
\* statement.
Exec(prev, at, fail, stmt) ==
  IF prev.err # "" THEN prev
  ELSE IF fail = at THEN Raise(prev.db, "OperationalError")
  ELSE stmt

\* with connection.begin(): the statements commit together on a normal
\* exit, and everything is rolled back when one of them raises
TransactionAutocommit(before, run) ==
  [db |-> run.db, outcome |-> IF run.err = "" THEN "ok" ELSE run.err]

Transaction(before, run) ==
  IF run.err = ""
  THEN [db |-> run.db, outcome |-> "ok"]
  ELSE [db |-> before, outcome |-> run.err]

\* where the store may fail a two-statement transaction: nowhere (0), at
\* the first statement, at the second, or at the commit (3)
FailPoints == 0..3

(***************************************************************************)
(* BaseDimension: is_created, create_dimension, drop_dimension             *)
(***************************************************************************)
\* a variant that trusts the flag set at construction instead of the catalog
is_createdCachedFlag(d, dim) == dim.exists

\* a variant that asks the catalog only when the flag is not set
is_createdFlagFirst(d, dim) == dim.exists \/ dim.name \in TableNames(d)

is_created(d, dim) == dim.name \in TableNames(d)

\* The operations below are called without a connection: they open one
\* (close_after = True) and reach `if close_after: connection.close()` only
\* when they neither return early nor raise.  closed tells whether the
\* connection the call opened was closed when the call ended.
Returned(t, closed) == [db |-> t.db, outcome |-> t.outcome, closed |-> closed]

create_dimension(d, dim, fail) ==
  IF is_created(d, dim)
  THEN [db |-> d, outcome |-> "skipped", closed |-> FALSE]
  ELSE LET s1 == Exec(Ok(d), 1, fail, TableCreate(d, dim))
           s2 == Exec(s1, 2, fail, RegistryInsert(s1.db, dim))
           s3 == Exec(s2, 3, fail, s2)
           t == Transaction(d, s3)
       IN  Returned(t, t.outcome = "ok")

\* a variant that drops the table and leaves the registry row
drop_dimensionKeepsRow(d, dim, fail) ==
  IF ~is_created(d, dim)
  THEN [db |-> d, outcome |-> "skipped", closed |-> FALSE]
  ELSE LET t == Transaction(d, Exec(Ok(d), 1, fail, TableDrop(d, dim)))
       IN  Returned(t, t.outcome = "ok")

drop_dimension(d, dim, fail) ==
  IF ~is_created(d, dim)
  THEN [db |-> d, outcome |-> "skipped", closed |-> FALSE]
  ELSE LET s1 == Exec(Ok(d), 1, fail, TableDrop(d, dim))
           s2 == Exec(s1, 2, fail, RegistryDelete(s1.db, dim))
           s3 == Exec(s2, 3, fail, s2)
           t == Transaction(d, s3)
       IN  Returned(t, t.outcome = "ok")

\* the fact tables that hold a foreign key to the table of a dimension
Referencing(d, name) ==
  {f.name : f \in {g \in d.fact_tables : name \in Range(g.dimensions)}}

\* a variant whose CASCADE empties the named table only
TableTruncateNamedOnly(d, dim, cascade) ==
  IF dim.name \notin TableNames(d)
  THEN Raise(d, "ProgrammingError")
  ELSE IF ~cascade /\ Referencing(d, dim.name) # {}
  THEN Raise(d, "NotSupportedError")
  ELSE Ok([d EXCEPT !.rows[dim.name] = {}])

\* TRUNCATE [CASCADE]: a table that a fact table references through a
\* foreign key is truncated only together with that fact table; without
\* CASCADE the statement is refused, whatever rows the fact table holds
TableTruncate(d, dim, cascade) ==
  IF dim.name \notin TableNames(d)
  THEN Raise(d, "ProgrammingError")
  ELSE IF ~cascade /\ Referencing(d, dim.name) # {}
  THEN Raise(d, "NotSupportedError")
  ELSE Ok([d EXCEPT
            !.rows[dim.name] = {},
            !.fact_rows = [f \in DOMAIN @ |->
                             IF f \in Referencing(d, dim.name)
                             THEN {} ELSE @[f]]])

\* a variant that issues the statement without looking for the table
truncateUnchecked(d, dim, cascade, fail) ==
  LET s1 == Exec(Ok(d), 1, fail, TableTruncate(d, dim, cascade))
      t == Transaction(d, s1)
  IN  Returned(t, t.outcome = "ok")

truncate(d, dim, cascade, fail) ==
  IF ~is_created(d, dim)
  THEN [db |-> d, outcome |-> "skipped", closed |-> FALSE]
  ELSE LET s1 == Exec(Ok(d), 1, fail, TableTruncate(d, dim, cascade))
           t == Transaction(d, s1)
       IN  Returned(t, t.outcome = "ok")

(***************************************************************************)
(* BaseDimension.populate.  A dataframe is a function from its index       *)
(* labels to rows, a row a function from column names to values.  Values   *)
(* are strings; the pandas null (None / NaN) is NaN.                       *)
(***************************************************************************)
NaN == "NaN"

DEFAULT_NS_VALUE == NaN

\* NS_VALUES[type(c.type)] if type(c.type) in NS_VALUES else DEFAULT_NS_VALUE
ns_value(type) ==
  CASE type = "VARCHAR" -> "NS"
    [] type = "NUMERIC" -> NaN
    [] type = "Text" -> "NS"
    [] type = "String" -> "NS"
    [] OTHER -> DEFAULT_NS_VALUE

ColumnNames(columns) == {columns[i].name : i \in DOMAIN columns}
TypeOf(columns, n) ==
  columns[CHOOSE i \in DOMAIN columns : columns[i].name = n].type

\* ns: the NS value of every column of the dimension
ns_values(dim) ==
  [c \in ColumnNames(dim.columns) |-> ns_value(TypeOf(dim.columns, c))]

\* dataframe[cols].fillna(value=ns): the dimension's columns only, every
\* null replaced by the column's NS value
fillna(row, cols, ns) ==
  [c \in cols |-> IF row[c] = NaN THEN ns[c] ELSE row[c]]

\* to_csv writes a null as the empty field, any other value as its text
to_csv(v) == IF v = NaN THEN "" ELSE v

\* COPY ... CSV reads an unquoted empty field as NULL
copy_value(field) == IF field = "" THEN NaN ELSE field

Max(S) == CHOOSE x \in S : \A y \in S : y <= x

\* idx = 0; if len(dataframe.index) > 0: idx = dataframe.index.max() + 1
\* (first a variant that keeps idx = 0)
ns_indexZero(dataframe) == 0

ns_index(dataframe) ==
  IF Cardinality(DOMAIN dataframe) > 0
  THEN Max(DOMAIN dataframe) + 1
  ELSE 0

TableOf(d, name) == CHOOSE t \in d.dimension_tables : t.name = name

\* the table rows the lines of a COPY (pk, cols) become: a column of the
\* table that the statement does not list is NULL
loaded_rows(table_cols, cols, lines) ==
  {[id |-> l.id,
    values |-> [c \in table_cols |->
                  IF c \in cols THEN copy_value(l.fields[c]) ELSE NaN]]
     : l \in lines}

\* cur.copy_expert(sql_copy, s); raw_connection.commit(): the lines are
\* loaded together or, when the statement is rejected, not at all
copy_expertReplace(d, name, cols, lines, fail) ==
  IF fail # 0 \/ name \notin TableNames(d)
  THEN [db |-> d, outcome |-> "OperationalError"]
  ELSE [db |-> [d EXCEPT !.rows[name] = loaded_rows(cols, cols, lines)],
        outcome |-> "ok"]

copy_expert(d, name, cols, lines, fail) ==
  IF fail # 0
  THEN [db |-> d, outcome |-> "OperationalError"]
  ELSE IF name \notin TableNames(d)
  THEN [db |-> d, outcome |-> "ProgrammingError"]
  ELSE LET t == TableOf(d, name)
           stored == d.rows[name]
           table_cols == ColumnNames(t.columns) \ {PK_COLUMN_NAME}
           loaded == loaded_rows(table_cols, cols, lines)
       IN  IF ~(cols \subseteq table_cols)
           THEN [db |-> d, outcome |-> "ProgrammingError"]
           ELSE IF \/ \E l \in lines : \E r \in stored : l.id = r.id
                   \/ \E l1 \in lines, l2 \in lines :
                        l1 # l2 /\ l1.id = l2.id
           THEN [db |-> d, outcome |-> "IntegrityError"]
           ELSE [db |-> [d EXCEPT !.rows[name] = stored \cup loaded],
                 outcome |-> "ok"]

\* the lines written to the stream after the header: the batch with its
\* nulls filled, then the NS row when append_ns_row
csv_lines(dim, dataframe, append_ns_row) ==
  LET cols == ColumnNames(dim.columns)
      ns == ns_values(dim)
      body == {[id |-> k,
                fields |-> [c \in cols |->
                              to_csv(fillna(dataframe[k], cols, ns)[c])]]
                 : k \in DOMAIN dataframe}
      ns_row == {[id |-> ns_index(dataframe),
                  fields |-> [c \in cols |-> to_csv(ns[c])]]}
  IN  IF append_ns_row THEN body \cup ns_row ELSE body

\* raw_connection.close() is reached when copy_expert and commit did not
\* raise (first a variant that swallows the rejection of the load)
populateSwallowing(d, dim, dataframe, append_ns_row, fail) ==
  LET t == copy_expert(d, dim.name, ColumnNames(dim.columns),
                       csv_lines(dim, dataframe, append_ns_row), fail)
  IN  [db |-> t.db, outcome |-> "ok", closed |-> TRUE]

populate(d, dim, dataframe, append_ns_row, fail) ==
  LET t == copy_expert(d, dim.name, ColumnNames(dim.columns),
                       csv_lines(dim, dataframe, append_ns_row), fail)
  IN  Returned(t, t.outcome = "ok")

(***************************************************************************)
(* DimensionManager                                                        *)
(***************************************************************************)
\* r = connection.execute(sel).rowcount; if r == 0: raise
assert_dimension_is_registeredNever(d, dimension_name) == "ok"

assert_dimension_is_registered(d, dimension_name) ==
  LET r == Cardinality({x \in d.dimension_registry : x.name = dimension_name})
  IN  IF r = 0 THEN "DimensionNotRegisteredError" ELSE "ok"

\* RasterDimension.load(dimension_name, label_col='label', properties={})
RasterDimension_load(dimension_name, label_col, properties) ==
  LET cuts == IF properties.cuts # NoValue THEN properties.cuts ELSE NoValue
  IN  RasterDimension(dimension_name, cuts)

\* TaxonDimension.load(dimension_name, label_col='label')
TaxonDimension_load(dimension_name, label_col) ==
  TaxonDimension(dimension_name)

\* The select reads dimension_type_key and label_column only; fetchone()
\* is None when no row matches, and unpacking None raises TypeError.  The
\* loader is called with label_col alone, so properties is its default {}.
get_dimension(d, dimension_name) ==
  LET found == {x \in d.dimension_registry : x.name = dimension_name}
  IN  IF found = {}
      THEN [outcome |-> "TypeError", dim |-> NoValue]
      ELSE LET row == CHOOSE x \in found : TRUE
               dim_type == row.dimension_type_key
               label_column == row.label_column
           IN  IF dim_type \notin DIMENSION_TYPE_REGISTRY
               THEN [outcome |-> "KeyError", dim |-> NoValue]
               ELSE IF dim_type = "RASTER_DIMENSION"
               THEN [outcome |-> "ok",
                     dim |-> Some(RasterDimension_load(
                               dimension_name, label_column, EmptyProperties))]
               ELSE [outcome |-> "ok",
                     dim |-> Some(TaxonDimension_load(
                               dimension_name, label_column))]

\* cls.get_dimension(dimension_name).drop_dimension()
\* (first a variant that loads the dimension and does not drop it)
delete_dimensionLoadOnly(d, dimension_name, fail) ==
  [db |-> d, outcome |-> get_dimension(d, dimension_name).outcome]

delete_dimension(d, dimension_name, fail) ==
  LET g == get_dimension(d, dimension_name)
  IN  IF g.outcome # "ok"
      THEN [db |-> d, outcome |-> g.outcome]
      ELSE drop_dimension(d, TheValue(g.dim), fail)

(***************************************************************************)
(* Fact tables.  The fact-table class is outside the analysed sources; its *)
(* creation and drop follow the specified contract: every dimension name   *)
(* is validated through the DimensionManager before any DDL, then the      *)
(* table (one foreign key per dimension, plus the measures) and its        *)
(* fact_table_registry row are created in one transaction.                 *)
(***************************************************************************)
\* the first failure of a sequence of checks, "ok" when there is none
RECURSIVE FirstFailure(_)
FirstFailure(checks) ==
  IF checks = <<>> THEN "ok"
  ELSE IF Head(checks) # "ok" THEN Head(checks)
  ELSE FirstFailure(Tail(checks))

FactTableCreate(d, name, dimension_names, measures) ==
  IF name \in FactTableNames(d)
       \/ \E n \in Range(dimension_names) : n \notin TableNames(d)
  THEN Raise(d, "ProgrammingError")
  ELSE Ok([d EXCEPT
            !.fact_tables =
                @ \cup {[name |-> name, dimensions |-> dimension_names,
                         measures |-> measures]},
            !.fact_rows[name] = {}])

FactRegistryInsert(d, name) ==
  IF name \in d.fact_table_registry
  THEN Raise(d, "IntegrityError")
  ELSE Ok([d EXCEPT !.fact_table_registry = @ \cup {name}])

FactTableDrop(d, name) ==
  IF name \notin FactTableNames(d)
  THEN Raise(d, "ProgrammingError")
  ELSE Ok([d EXCEPT !.fact_tables = {t \in @ : t.name # name},
                    !.fact_rows[name] = {}])

FactRegistryDelete(d, name) ==
  Ok([d EXCEPT !.fact_table_registry = @ \ {name}])

\* a variant that issues the DDL without looking for an existing table
create_fact_tableUnchecked(d, name, dimension_names, measures, fail) ==
  LET checked == FirstFailure(
        [i \in DOMAIN dimension_names |->
           assert_dimension_is_registered(d, dimension_names[i])])
  IN  IF checked # "ok"
      THEN [db |-> d, outcome |-> checked]
      ELSE LET s1 == Exec(Ok(d), 1, fail,
                          FactTableCreate(d, name, dimension_names, measures))
               s2 == Exec(s1, 2, fail, FactRegistryInsert(s1.db, name))
               s3 == Exec(s2, 3, fail, s2)
           IN  Transaction(d, s3)

create_fact_table(d, name, dimension_names, measures, fail) ==
  LET checked == FirstFailure(
        [i \in DOMAIN dimension_names |->
           assert_dimension_is_registered(d, dimension_names[i])])
  IN  IF checked # "ok"
      THEN [db |-> d, outcome |-> checked]
      ELSE IF name \in FactTableNames(d)
      THEN [db |-> d, outcome |-> "skipped"]
      ELSE LET s1 == Exec(Ok(d), 1, fail,
                          FactTableCreate(d, name, dimension_names, measures))
               s2 == Exec(s1, 2, fail, FactRegistryInsert(s1.db, name))
               s3 == Exec(s2, 3, fail, s2)
           IN  Transaction(d, s3)

drop_fact_table(d, name, fail) ==
  IF name \notin FactTableNames(d)
  THEN [db |-> d, outcome |-> "skipped"]
  ELSE LET s1 == Exec(Ok(d), 1, fail, FactTableDrop(d, name))
           s2 == Exec(s1, 2, fail, FactRegistryDelete(s1.db, name))
           s3 == Exec(s2, 3, fail, s2)
       IN  Transaction(d, s3)

\* The rows of a fact table: a row holds one key per dimension of the
\* table and the measures.  The bulk load of a batch is one statement: the
\* store loads the batch, or rejects it when a key of a row is not the key
\* of a row of the dimension it references.
FactTableOf(d, name) == CHOOSE t \in d.fact_tables : t.name = name

FactCopy(d, name, batch, fail) ==
  IF fail # 0
  THEN [db |-> d, outcome |-> "OperationalError"]
  ELSE IF name \notin FactTableNames(d)
  THEN [db |-> d, outcome |-> "ProgrammingError"]
  ELSE LET dims == Range(FactTableOf(d, name).dimensions)
       IN  IF \E r \in batch : DOMAIN r.keys # dims
           THEN [db |-> d, outcome |-> "ProgrammingError"]
           ELSE IF \E r \in batch : \E n \in dims :
                     \A x \in d.rows[n] : x.id # r.keys[n]
           THEN [db |-> d, outcome |-> "IntegrityError"]
           ELSE [db |-> [d EXCEPT !.fact_rows[name] = @ \cup batch],
                 outcome |-> "ok"]

populate_fact_table(d, name, batch, fail) == FactCopy(d, name, batch, fail)

(***************************************************************************)
(* What the caller observes of the last operation.                         *)
(***************************************************************************)
NoResult ==
  [ op |-> "none", name |-> "", outcome |-> "", fail |-> 0,
    dim |-> NoValue, dims |-> <<>>, model |-> NoValue,
    dataframe |-> <<>>, append_ns_row |-> FALSE, closed |-> TRUE,
    steps |-> <<>>, published |-> <<>>, cascade |-> FALSE,
    cubes |-> NoValue, args |-> <<>> ]

Observed(op, name, outcome) ==
  [NoResult EXCEPT !.op = op, !.name = name, !.outcome = outcome]

\* the dimension lists a caller may give to a fact table; "dx" is a name
\* no caller ever creates
FactDimNames == DimNames \cup {"dx"}

DimLists ==
  {<<a>> : a \in FactDimNames}
    \cup {p \in FactDimNames \X FactDimNames : p[1] # p[2]}

EmptyModelDict == [dimensions |-> <<>>, fact_tables |-> <<>>]

\* the processes whose calls interleave
Callers == {"p1", "p2"}

\* a process that is in no call
Idle ==
  [pc |-> "idle", dim |-> NoValue, table |-> FALSE, row |-> FALSE,
   outcome |-> ""]

Init ==
  /\ db = EmptyDb
  /\ model_dict = EmptyModelDict
  /\ result = NoResult
  /\ callers = [p \in Callers |-> Idle]
  /\ process = InitProcess

(***************************************************************************)
(* Actions of the lifecycle specification.                                 *)
(***************************************************************************)
CreateDimensionOf(instances) ==
  \E dim \in instances, fail \in FailPoints :
    LET r == create_dimension(db, dim, fail)
    IN  /\ db' = r.db
        /\ result' = [Observed("create_dimension", dim.name, r.outcome)
                        EXCEPT !.fail = fail, !.dim = Some(dim),
                               !.closed = r.closed]
        /\ UNCHANGED <<model_dict, callers, process>>

DropDimensionOf(instances) ==
  \E dim \in instances, fail \in FailPoints :
    LET r == drop_dimension(db, dim, fail)
    IN  /\ db' = r.db
        /\ result' = [Observed("drop_dimension", dim.name, r.outcome)
                        EXCEPT !.fail = fail, !.dim = Some(dim),
                               !.closed = r.closed]
        /\ UNCHANGED <<model_dict, callers, process>>

CreateDimension == CreateDimensionOf(Instances)

DropDimension == DropDimensionOf(Instances)

\* is_created() on an instance built at any earlier time: its flag is set
\* when the process had built an instance of the name before
IsCreated ==
  \E dim \in Instances, flag \in BOOLEAN :
    LET self == [dim EXCEPT !.exists = flag]
        created == is_created(db, self)
    IN  /\ result' = [Observed("is_created", self.name,
                                IF created THEN "True" ELSE "False")
                        EXCEPT !.dim = Some(self)]
        /\ UNCHANGED <<db, model_dict, callers, process>>

GetDimension ==
  \E n \in DimNames :
    LET g == get_dimension(db, n)
    IN  /\ result' = [Observed("get_dimension", n, g.outcome)
                        EXCEPT !.dim = g.dim]
        /\ UNCHANGED <<db, model_dict, callers, process>>

DeleteDimension ==
  \E n \in DimNames, fail \in FailPoints :
    LET r == delete_dimension(db, n, fail)
    IN  /\ db' = r.db
        /\ result' = [Observed("delete_dimension", n, r.outcome)
                        EXCEPT !.fail = fail]
        /\ UNCHANGED <<model_dict, callers, process>>

CreateFactTable ==
  \E f \in FactNames, ds \in DimLists, fail \in FailPoints :
    LET r == create_fact_table(db, f, ds, <<"m1">>, fail)
    IN  /\ db' = r.db
        /\ result' = [Observed("create_fact_table", f, r.outcome)
                        EXCEPT !.fail = fail, !.dims = ds]
        /\ UNCHANGED <<model_dict, callers, process>>

DropFactTable ==
  \E f \in FactNames, fail \in FailPoints :
    LET r == drop_fact_table(db, f, fail)
    IN  /\ db' = r.db
        /\ result' = [Observed("drop_fact_table", f, r.outcome)
                        EXCEPT !.fail = fail]
        /\ UNCHANGED <<model_dict, callers, process>>

(***************************************************************************)
(* The population specification: one dimension name, created, dropped and  *)
(* populated with batches of at most MaxBatch rows.                        *)
(***************************************************************************)
PopInstances ==
  {RasterDimension("d1", NoValue), RasterDimension("d1", Some(FirstCuts))}

\* the rows of the batches: every textual column null, "a" or the empty
\* string, every other column null or "1", and a column the dimension does
\* not declare
RowPool(dim) ==
  { [c \in ColumnNames(dim.columns) \cup {"extra"} |->
       IF c = "extra" THEN "x"
       ELSE IF TypeOf(dim.columns, c) = "String" THEN p[1] ELSE p[2]]
      : p \in {<<NaN, NaN>>, <<"a", "1">>, <<"", "1">>} }

\* the index labels of a batch
BatchKeys == {S \in SUBSET (0..MaxKey) : Cardinality(S) <= MaxBatch}

Batches(dim) == UNION { [K -> RowPool(dim)] : K \in BatchKeys }

PopCreateDimension == CreateDimensionOf(PopInstances)

PopDropDimension == DropDimensionOf(PopInstances)

\* the instance whose populate is called: the raster dimension with
\* cut-points, which declares numeric columns and a textual one
Populated == {RasterDimension("d1", Some(FirstCuts))}

Populate ==
  \E dim \in Populated, append_ns_row \in BOOLEAN :
    \E dataframe \in Batches(dim) :
      LET fail == 0
          r == populate(db, dim, dataframe, append_ns_row, fail)
      IN  /\ db' = r.db
          /\ result' = [Observed("populate", dim.name, r.outcome)
                          EXCEPT !.fail = fail, !.dim = Some(dim),
                                 !.dataframe = dataframe,
                                 !.append_ns_row = append_ns_row,
                                 !.closed = r.closed]
          /\ UNCHANGED <<model_dict, callers, process>>

Truncate ==
  \E dim \in PopInstances, cascade \in BOOLEAN, fail \in {0, 1} :
    LET r == truncate(db, dim, cascade, fail)
    IN  /\ db' = r.db
        /\ result' = [Observed("truncate", dim.name, r.outcome)
                        EXCEPT !.fail = fail, !.dim = Some(dim),
                               !.closed = r.closed, !.cascade = cascade]
        /\ UNCHANGED <<model_dict, callers, process>>

NextPopulate ==
  \/ PopCreateDimension
  \/ PopDropDimension
  \/ Populate
  \/ Truncate

SpecPopulate == Init /\ [][NextPopulate]_vars

(***************************************************************************)
(* Properties of the population specification.                             *)
(***************************************************************************)
\* the rows of table name whose every non-key column holds the column's
\* NS value
AllSentinelRows(d, name) ==
  {r \in d.rows[name] :
     \A c \in DOMAIN r.values :
       r.values[c] = ns_value(TypeOf(TableOf(d, name).columns, c))}

Ids(rows) == {r.id : r \in rows}

\* the rows a populate call hands to the store, as the table stores them
LoadOf(res) ==
  LET dim == TheValue(res.dim)
  IN  loaded_rows(ColumnNames(dim.columns), ColumnNames(dim.columns),
                  csv_lines(dim, res.dataframe, res.append_ns_row))

\* C4 as claimed: after populate with append_ns_row the table holds exactly
\* one row whose every non-key column equals the column's sentinel, and its
\* key is max(other keys) + 1, or 0 when there is no other row.
C4_ExactlyOneSentinelRow ==
  (result.op = "populate" /\ result.outcome = "ok" /\ result.append_ns_row)
    => LET S == AllSentinelRows(db, result.name)
           others == Ids(db.rows[result.name] \ S)
       IN  /\ Cardinality(S) = 1
           /\ \A r \in S : r.id = IF others = {} THEN 0 ELSE Max(others) + 1

\* C4 as amended: a populate with append_ns_row that the store accepts
\* loads, beside the rows of the batch, exactly one synthetic row; its key is
\* max(batch index) + 1, or 0 for an empty batch, and each declared column
\* of it holds the column's sentinel.
C4_NsRowAppended ==
  [][ (result'.op = "populate" /\ result'.outcome = "ok"
         /\ result'.append_ns_row)
        => LET dim == TheValue(result'.dim)
               index == DOMAIN result'.dataframe
               new == db'.rows[result'.name] \ db.rows[result'.name]
               synthetic == {r \in new : r.id \notin index}
           IN  /\ Cardinality(synthetic) = 1
               /\ Ids(new) = index \cup Ids(synthetic)
               /\ \A r \in synthetic :
                    /\ r.id = IF index = {} THEN 0 ELSE Max(index) + 1
                    /\ \A c \in ColumnNames(dim.columns) :
                         r.values[c] = ns_value(TypeOf(dim.columns, c)) ]_vars

\* the table holds two all-sentinel rows after a populate with append_ns_row,
\* whose batch index does not start at 0
C4_Witness ==
  /\ result.op = "populate"
  /\ result.outcome = "ok"
  /\ result.append_ns_row
  /\ Cardinality(AllSentinelRows(db, result.name)) >= 2
  /\ 0 \notin DOMAIN result.dataframe
  /\ DOMAIN result.dataframe # {}

\* the dimension of a populate call declares the columns of the stored table
MatchesTable(d, dim) ==
  /\ dim.name \in TableNames(d)
  /\ <<Column(PK_COLUMN_NAME, "Integer")>> \o dim.columns
       = TableOf(d, dim.name).columns

\* C5 as claimed: every populate call on a created dimension succeeds, and
\* afterwards the table holds the rows of that call (batch and NS row) only.
C5_PopulateIsFullReplace ==
  [][ (result'.op = "populate" /\ result'.fail = 0
         /\ MatchesTable(db, TheValue(result'.dim)))
        => /\ result'.outcome = "ok"
           /\ db'.rows[result'.name] = LoadOf(result') ]_vars

\* C5 as amended: a populate call on a created dimension adds its rows to
\* the rows the table holds; it is rejected, and the table left as it was,
\* exactly when a key of the load is already in the table.
C5_PopulateAppends ==
  [][ (result'.op = "populate" /\ result'.fail = 0
         /\ MatchesTable(db, TheValue(result'.dim)))
        => LET held == db.rows[result'.name]
               load == LoadOf(result')
           IN  IF Ids(held) \cap Ids(load) # {}
               THEN result'.outcome = "IntegrityError" /\ db' = db
               ELSE /\ result'.outcome = "ok"
                    /\ db'.rows[result'.name] = held \cup load ]_vars

\* a second load merged into the rows of an earlier one
C5_Witness ==
  /\ result.op = "populate"
  /\ result.outcome = "ok"
  /\ result.dataframe # <<>>
  /\ db.rows[result.name] # LoadOf(result)
  /\ MatchesTable(db, TheValue(result.dim))

\* C20: drop_dimension and truncate on a dimension whose table does not
\* exist raise no error (they are skipped with a warning) and leave the
\* tables, the rows and the registries of the store unchanged.
C20_AbsentTableIsSkipped ==
  [][ ( /\ result'.op \in {"drop_dimension", "truncate"}
        /\ result'.name \notin TableNames(db) )
        => /\ result'.outcome = "skipped"
           /\ db' = db ]_vars

\* a truncate that was skipped after the table had been dropped
C20_Witness ==
  /\ result.op = "truncate"
  /\ result.outcome = "skipped"
  /\ result.name \notin TableNames(db)
  /\ db.dimension_registry = {}

\* the store rejects the load of a populate call: the table is missing or
\* lacks a declared column, or a key of the load is already in the table
Rejected(d, res) ==
  \/ ~MatchesTable(d, TheValue(res.dim))
  \/ Ids(d.rows[res.name]) \cap Ids(LoadOf(res)) # {}

\* the errors of the database driver that a rejected statement raises
StoreErrors == {"IntegrityError", "ProgrammingError", "OperationalError"}

\* C19 as claimed: when the store rejects the bulk load, populate fails
\* with a PopulationError and nothing of the load is kept.
C19_RejectionRaisesPopulationError ==
  [][ (result'.op = "populate" /\ Rejected(db, result'))
        => /\ result'.outcome = "PopulationError"
           /\ db' = db ]_vars

\* C19 as amended: when the store rejects the bulk load, populate fails
\* with the error the database driver raised, unwrapped (a uniqueness
\* violation is an IntegrityError); nothing of the load is kept and the
\* call is not reported as a success.
C19_RejectionPropagates ==
  [][ (result'.op = "populate" /\ Rejected(db, result'))
        => /\ result'.outcome \in StoreErrors
           /\ (MatchesTable(db, TheValue(result'.dim))
                 => result'.outcome = "IntegrityError")
           /\ db' = db ]_vars

\* a load rejected for a key that the table already holds
C19_Witness ==
  /\ result.op = "populate"
  /\ result.outcome = "IntegrityError"
  /\ Ids(db.rows[result.name]) \cap DOMAIN result.dataframe # {}

\* the rows of the table that a populate call loaded from its batch
BatchRow(d, res, k) == CHOOSE r \in d.rows[res.name] : r.id = k

\* C13: a populate call that the store accepts loads every row of the batch
\* with each null of a declared column replaced by the column's sentinel
\* ("NS" for a textual column, the not-a-number marker otherwise) and each
\* non-null value unchanged; no textual column of a loaded row is null.
C13_NullsBecomeSentinels ==
  [][ (result'.op = "populate" /\ result'.outcome = "ok")
        => LET dim == TheValue(result'.dim)
           IN  \A k \in DOMAIN result'.dataframe :
                 \A c \in ColumnNames(dim.columns) :
                   LET v == result'.dataframe[k][c]
                       type == TypeOf(dim.columns, c)
                       stored == BatchRow(db', result', k).values[c]
                   IN  /\ v = NaN => stored = ns_value(type)
                       /\ v # NaN => stored = v
                       /\ type = "String" => stored # NaN ]_vars

(***************************************************************************)
(* load_model_from_dict.  model_dict is the caller's dict; a dimension     *)
(* entry is a dict whose keys 'name', 'dimension_type' and 'cuts' may be   *)
(* missing (NoValue).  The loader pops keys from the entries, so the dict  *)
(* it leaves behind is part of its result.                                 *)
(***************************************************************************)
\* dim_cls(dim_name, **dim) once 'name' and 'dimension_type' are popped:
\* the only remaining key is 'cuts', which TaxonDimension does not accept
Instantiate(dim_type, dim_name, dim) ==
  IF dim_type = "RASTER_DIMENSION"
  THEN [outcome |-> "ok", dim |-> Some(RasterDimension(dim_name, dim.cuts))]
  ELSE IF dim.cuts # NoValue
  THEN [outcome |-> "TypeError", dim |-> NoValue]
  ELSE [outcome |-> "ok", dim |-> Some(TaxonDimension(dim_name))]

\* the loop over model_dict['dimensions'], from entry i on
RECURSIVE load_dimensions(_, _, _, _)
load_dimensions(d, dims, i, dimensions) ==
  IF i > Len(dims)
  THEN [outcome |-> "ok", dimensions |-> dimensions, dims |-> dims]
  ELSE IF dims[i].name = NoValue
  THEN [outcome |-> "KeyError", dimensions |-> dimensions, dims |-> dims]
  ELSE
    LET dim_name == TheValue(dims[i].name)
        popped == [dims EXCEPT ![i].name = NoValue]
        loaded == get_dimension(d, dim_name)
    IN  IF loaded.outcome = "ok"
        THEN load_dimensions(d, popped, i + 1,
                             Put(dimensions, dim_name, TheValue(loaded.dim)))
        ELSE IF loaded.outcome # "DimensionNotRegisteredError"
        THEN [outcome |-> loaded.outcome, dimensions |-> dimensions,
              dims |-> popped]
        ELSE IF popped[i].dimension_type = NoValue
        THEN [outcome |-> "KeyError", dimensions |-> dimensions,
              dims |-> popped]
        ELSE
          LET dim_type == TheValue(popped[i].dimension_type)
              popped2 == [popped EXCEPT ![i].dimension_type = NoValue]
              made == Instantiate(dim_type, dim_name, popped2[i])
          IN  IF dim_type \notin DIMENSION_TYPE_REGISTRY
              THEN [outcome |-> "KeyError", dimensions |-> dimensions,
                    dims |-> popped2]
              ELSE IF made.outcome # "ok"
              THEN [outcome |-> made.outcome, dimensions |-> dimensions,
                    dims |-> popped2]
              ELSE load_dimensions(d, popped2, i + 1,
                                   Put(dimensions, dim_name,
                                       TheValue(made.dim)))

\* BaseFactTable(ft_name, ft_dims, measures): the in-memory fact table
BaseFactTable(name, dimensions, measures) ==
  [name |-> name, dimensions |-> dimensions, columns |-> measures]

\* the loop over model_dict['fact_tables'], from entry i on; a variant
\* that leaves out the names it cannot resolve comes first
RECURSIVE load_fact_tablesSkipping(_, _, _, _, _)
load_fact_tablesSkipping(f_tables, i, dimensions, fact_tables, aggregates) ==
  IF i > Len(f_tables)
  THEN [outcome |-> "ok", fact_tables |-> fact_tables,
        aggregates |-> aggregates]
  ELSE
    LET ft == f_tables[i]
        known == SelectSeq(ft.dimensions, LAMBDA n : n \in DOMAIN dimensions)
        ft_dims == [k \in DOMAIN known |-> dimensions[known[k]]]
        measures == [k \in DOMAIN ft.measures |->
                       Column(ft.measures[k], "Float")]
    IN  load_fact_tablesSkipping(f_tables, i + 1, dimensions,
          Put(fact_tables, ft.name, BaseFactTable(ft.name, ft_dims, measures)),
          Put(aggregates, ft.name, ft.aggregates))

RECURSIVE load_fact_tables(_, _, _, _, _)
load_fact_tables(f_tables, i, dimensions, fact_tables, aggregates) ==
  IF i > Len(f_tables)
  THEN [outcome |-> "ok", fact_tables |-> fact_tables,
        aggregates |-> aggregates]
  ELSE
    LET ft == f_tables[i]
    IN  IF \E k \in DOMAIN ft.dimensions :
             ft.dimensions[k] \notin DOMAIN dimensions
        THEN [outcome |-> "KeyError", fact_tables |-> fact_tables,
              aggregates |-> aggregates]
        ELSE
          LET ft_dims == [k \in DOMAIN ft.dimensions |->
                            dimensions[ft.dimensions[k]]]
              measures == [k \in DOMAIN ft.measures |->
                             Column(ft.measures[k], "Float")]
          IN  load_fact_tables(f_tables, i + 1, dimensions,
                Put(fact_tables, ft.name,
                    BaseFactTable(ft.name, ft_dims, measures)),
                Put(aggregates, ft.name, ft.aggregates))

DimensionalModel(dimensions, fact_tables, aggregates) ==
  [dimensions |-> dimensions, fact_tables |-> fact_tables,
   aggregates |-> aggregates]

\* returns the model (or the exception raised) and the dict as it is left
load_model_from_dict(d, dict) ==
  LET ds == load_dimensions(d, dict.dimensions, 1, <<>>)
      left == [dict EXCEPT !.dimensions = ds.dims]
  IN  IF ds.outcome # "ok"
      THEN [outcome |-> ds.outcome, model |-> NoValue, model_dict |-> left]
      ELSE
        LET fs == load_fact_tables(dict.fact_tables, 1, ds.dimensions,
                                   <<>>, <<>>)
        IN  IF fs.outcome # "ok"
            THEN [outcome |-> fs.outcome, model |-> NoValue,
                  model_dict |-> left]
            ELSE [outcome |-> "ok",
                  model |-> Some(DimensionalModel(ds.dimensions,
                                   fs.fact_tables, fs.aggregates)),
                  model_dict |-> left]

(***************************************************************************)
(* DimensionalModel.create_model: every dimension, then every fact table,  *)
(* each created in a transaction of its own on the connection of the call; *)
(* an error of one creation ends the call.  The dicts are iterated in an   *)
(* order the caller does not control (dim_order, ft_order); the store may  *)
(* fail the first statement of creation number fail_at.                    *)
(***************************************************************************)
Orders(S) == {o \in [1..Cardinality(S) -> S] : Range(o) = S}

Step(op, name) == [op |-> op, name |-> name]

dimension_steps(dim_order) ==
  [i \in DOMAIN dim_order |-> Step("create_dimension", dim_order[i])]

fact_table_steps(ft_order) ==
  [i \in DOMAIN ft_order |-> Step("create_fact_table", ft_order[i])]

\* v.create_dimension(connection) / v.create_fact_table(connection)
create_member(d, model, step, fail) ==
  IF step.op = "create_dimension"
  THEN create_dimension(d, model.dimensions[step.name], fail)
  ELSE LET ft == model.fact_tables[step.name]
       IN  create_fact_table(d, ft.name,
             [k \in DOMAIN ft.dimensions |-> ft.dimensions[k].name],
             [k \in DOMAIN ft.columns |-> ft.columns[k].name], fail)

\* the creations from number i on; steps is the log of the creations run
RECURSIVE run_steps(_, _, _, _, _, _)
run_steps(d, model, todo, i, steps, fail_at) ==
  IF i > Len(todo)
  THEN [db |-> d, outcome |-> "ok", steps |-> steps]
  ELSE LET r == create_member(d, model, todo[i],
                              IF fail_at = i THEN 1 ELSE 0)
           done == Append(steps, [op |-> todo[i].op, name |-> todo[i].name,
                                  outcome |-> r.outcome])
       IN  IF r.outcome \in {"ok", "skipped"}
           THEN run_steps(r.db, model, todo, i + 1, done, fail_at)
           ELSE [db |-> r.db, outcome |-> r.outcome, steps |-> done]

\* a variant that creates the fact tables before the dimensions
create_modelFactsFirst(d, model, dim_order, ft_order, fail_at) ==
  run_steps(d, model,
            fact_table_steps(ft_order) \o dimension_steps(dim_order),
            1, <<>>, fail_at)

create_model(d, model, dim_order, ft_order, fail_at) ==
  run_steps(d, model,
            dimension_steps(dim_order) \o fact_table_steps(ft_order),
            1, <<>>, fail_at)

(***************************************************************************)
(* The lifecycle specification: dimensions and fact tables are created and *)
(* dropped, with store failures at every point.                            *)
(***************************************************************************)
\* the instance a model holds under each name
ModelDimension(n) ==
  IF n = "d1" THEN RasterDimension(n, Some(FirstCuts)) ELSE TaxonDimension(n)

\* the fact tables of a model over the dimensions named names: none, or one
\* over all of them, listed in some order
ModelFactTables(names) ==
  {<<>>} \cup
    { [f \in {name} |->
         BaseFactTable(name, [k \in DOMAIN o |-> ModelDimension(o[k])],
                       <<Column("m1", "Float")>>)] :
        name \in FactNames, o \in Orders(names) }

\* the models callers build with the constructor
Models ==
  UNION { { DimensionalModel([n \in names |-> ModelDimension(n)], fts, <<>>) :
              fts \in ModelFactTables(names) } :
          names \in (SUBSET DimNames) \ {{}} }

CreateModel ==
  \E model \in Models :
    \E dim_order \in Orders(DOMAIN model.dimensions),
       ft_order \in Orders(DOMAIN model.fact_tables) :
      \E fail_at \in 0..(Len(dim_order) + Len(ft_order)) :
        LET r == create_model(db, model, dim_order, ft_order, fail_at)
        IN  /\ db' = r.db
            /\ result' = [Observed("create_model", "", r.outcome)
                            EXCEPT !.fail = fail_at, !.dims = dim_order,
                                   !.steps = r.steps]
            /\ UNCHANGED <<model_dict, callers, process>>

Next ==
  \/ CreateDimension
  \/ DropDimension
  \/ IsCreated
  \/ GetDimension
  \/ DeleteDimension
  \/ CreateFactTable
  \/ DropFactTable

Spec == Init /\ [][Next]_vars

(***************************************************************************)
(* The model-creation specification: whole models are created, and their   *)
(* dimensions and fact tables dropped one by one.                          *)
(***************************************************************************)
ModelMemberDropDimension ==
  DropDimensionOf({ModelDimension(n) : n \in DimNames})

NextCreateModel ==
  \/ CreateModel
  \/ ModelMemberDropDimension
  \/ DropFactTable

SpecCreateModel == Init /\ [][NextCreateModel]_vars

(***************************************************************************)
(* DimensionalModel.populate_dimensions.  The publisher of a dimension is  *)
(* outside the analysed sources: the batch it returns is an input of the   *)
(* call (published).                                                       *)
(***************************************************************************)
\* data = self.publisher.process(...)[0]; self.populate(data, append_ns_row)
populate_from_publisher(d, dim, data, append_ns_row, fail) ==
  populate(d, dim, data, append_ns_row, fail)

\* the loop from member number i on: each member commits its own load, and
\* the error of a member ends the call
RECURSIVE populate_members(_, _, _, _, _, _)
populate_members(d, model, dim_order, published, i, steps) ==
  IF i > Len(dim_order)
  THEN [db |-> d, outcome |-> "ok", steps |-> steps]
  ELSE LET n == dim_order[i]
           r == populate_from_publisher(d, model.dimensions[n], published[n],
                                        TRUE, 0)
           done == Append(steps, [op |-> "populate_from_publisher",
                                  name |-> n, outcome |-> r.outcome])
       IN  IF r.outcome = "ok"
           THEN populate_members(r.db, model, dim_order, published, i + 1, done)
           ELSE [db |-> r.db, outcome |-> r.outcome, steps |-> done]

\* a variant that undoes the loads of the call when a member fails
populate_dimensionsAllOrNothing(d, model, dim_order, published) ==
  LET r == populate_members(d, model, dim_order, published, 1, <<>>)
  IN  IF r.outcome = "ok" THEN r ELSE [r EXCEPT !.db = d]

populate_dimensions(d, model, dim_order, published) ==
  populate_members(d, model, dim_order, published, 1, <<>>)

(***************************************************************************)
(* The model-population specification: the dimensions of a model are       *)
(* created, dropped and populated together.                                *)
(***************************************************************************)
\* the dimension a populated model holds under each name
Member(n) == RasterDimension(n, Some(FirstCuts))

MemberInstances == {Member(n) : n \in DimNames}

\* the batches the publishers return: at most MaxBatch rows without nulls,
\* under a range index 0, 1, ...
PublishedBatches(dim) ==
  LET full == {r \in RowPool(dim) :
                 \A c \in ColumnNames(dim.columns) : r[c] \notin {NaN, ""}}
  IN  UNION { [0..(n - 1) -> full] : n \in 0..MaxBatch }

MemberCreateDimension == CreateDimensionOf(MemberInstances)

MemberDropDimension == DropDimensionOf(MemberInstances)

PopulateDimensions ==
  \E names \in (SUBSET DimNames) \ {{}} :
    \E dim_order \in Orders(names),
       published \in [names -> UNION {PublishedBatches(Member(n)) :
                                       n \in names}] :
      LET model == DimensionalModel([n \in names |-> Member(n)],
                                    <<>>, <<>>)
          r == populate_dimensions(db, model, dim_order, published)
      IN  /\ \A n \in names :
               published[n] \in PublishedBatches(Member(n))
          /\ db' = r.db
          /\ result' = [Observed("populate_dimensions", "", r.outcome)
                          EXCEPT !.dims = dim_order, !.steps = r.steps,
                                 !.published = published]
          /\ UNCHANGED <<model_dict, callers, process>>

NextPopulateDimensions ==
  \/ MemberCreateDimension
  \/ MemberDropDimension
  \/ PopulateDimensions

SpecPopulateDimensions == Init /\ [][NextPopulateDimensions]_vars

\* the rows the call hands to the store for member n
MemberLoad(res, n) ==
  LET dim == Member(n)
  IN  loaded_rows(ColumnNames(dim.columns), ColumnNames(dim.columns),
                  csv_lines(dim, res.published[n], TRUE))

publisher_call(dim) ==
  CASE dim.type_key = "RASTER_DIMENSION" ->
         [args |-> <<dim.name>>, cuts |-> Some(dim.cuts), flatten |-> NoValue]
    [] dim.type_key = "TAXON_DIMENSION" ->
         [args |-> <<>>, cuts |-> NoValue, flatten |-> Some(TRUE)]
    [] OTHER -> [args |-> <<>>, cuts |-> NoValue, flatten |-> NoValue]

PubInstances ==
  {RasterDimension(n, c) : n \in DimNames, c \in {NoValue, Some(FirstCuts)}}

PubCreateDimension ==
  \E dim \in PubInstances :
    LET r == create_dimension(db, dim, 0)
    IN  /\ db' = r.db
        /\ result' = Observed("create_dimension", dim.name, r.outcome)
        /\ UNCHANGED <<model_dict, callers, process>>

\* dim.populate_from_publisher(append_ns_row=...) on instance dim, obtained
\* in the way how
PopulateFromPublisherOf(dim, how) ==
  \E append_ns_row \in BOOLEAN, data \in PublishedBatches(dim) :
    LET r == populate_from_publisher(db, dim, data, append_ns_row, 0)
    IN  /\ db' = r.db
        /\ result' = [Observed("populate_from_publisher", dim.name, r.outcome)
                        EXCEPT !.dim = Some(dim), !.dataframe = data,
                               !.append_ns_row = append_ns_row,
                               !.closed = r.closed,
                               !.args = <<publisher_call(dim), how>>]
        /\ UNCHANGED <<model_dict, callers, process>>

PopulateConstructed ==
  \E dim \in PubInstances : PopulateFromPublisherOf(dim, "constructed")

\* DimensionManager.get_dimension(n).populate_from_publisher()
PopulateLoaded ==
  \E n \in DimNames :
    LET g == get_dimension(db, n)
    IN  /\ g.outcome = "ok"
        /\ PopulateFromPublisherOf(TheValue(g.dim), "loaded")

NextPublish ==
  \/ PubCreateDimension
  \/ PopulateConstructed
  \/ PopulateLoaded

SpecPublish == Init /\ [][NextPublish]_vars

\* the cut-points a dimension was configured with: those given to the
\* constructor, which the registry row of a created dimension records
ConfiguredCuts(d, res) ==
  IF res.args[2] = "loaded"
  THEN (CHOOSE x \in d.dimension_registry : x.name = res.name).properties.cuts
  ELSE TheValue(res.dim).cuts

\* C25: populate_from_publisher obtains the batch from the publisher and
\* calls populate with it; a raster dimension calls its publisher with its
\* raster name and the cut-points it was configured with, on every call,
\* whether the instance was built by the caller or loaded from the registry.
C25_CutsAlwaysForwarded ==
  [][ (result'.op = "populate_from_publisher")
        => LET dim == TheValue(result'.dim)
               call == result'.args[1]
               r == populate(db, dim, result'.dataframe,
                             result'.append_ns_row, 0)
           IN  /\ db' = r.db
               /\ result'.outcome = r.outcome
               /\ call.args = <<dim.name>>
               /\ call.cuts = Some(ConfiguredCuts(db, result')) ]_vars

(***************************************************************************)
(* The truncation specification: dimensions and the fact tables over them  *)
(* are created and populated, and the dimensions truncated.                *)
(***************************************************************************)
TruncInstances == {RasterDimension(n, NoValue) : n \in DimNames}

\* the dimension lists of the fact tables: one dimension each
TruncDimLists == {<<n>> : n \in DimNames}

\* the batches of fact rows: at most MaxBatch rows, a key of 0..MaxKey per
\* dimension and one measure
FactBatches(ds) ==
  {B \in SUBSET {[keys |-> k, m1 |-> "1"] : k \in [Range(ds) -> 0..MaxKey]} :
     Cardinality(B) <= MaxBatch}

TruncCreateDimension ==
  \E dim \in TruncInstances :
    LET r == create_dimension(db, dim, 0)
    IN  /\ db' = r.db
        /\ result' = [Observed("create_dimension", dim.name, r.outcome)
                        EXCEPT !.closed = r.closed]
        /\ UNCHANGED <<model_dict, callers, process>>

TruncPopulate ==
  \E dim \in TruncInstances :
    \E dataframe \in PublishedBatches(dim) :
      LET r == populate(db, dim, dataframe, TRUE, 0)
      IN  /\ db' = r.db
          /\ result' = [Observed("populate", dim.name, r.outcome)
                          EXCEPT !.closed = r.closed]
          /\ UNCHANGED <<model_dict, callers, process>>

TruncCreateFactTable ==
  \E f \in FactNames, ds \in TruncDimLists :
    LET r == create_fact_table(db, f, ds, <<"m1">>, 0)
    IN  /\ db' = r.db
        /\ result' = Observed("create_fact_table", f, r.outcome)
        /\ UNCHANGED <<model_dict, callers, process>>

TruncPopulateFactTable ==
  \E f \in FactNames, ds \in TruncDimLists :
    \E batch \in FactBatches(ds) :
      LET r == populate_fact_table(db, f, batch, 0)
      IN  /\ db' = r.db
          /\ result' = Observed("populate_fact_table", f, r.outcome)
          /\ UNCHANGED <<model_dict, callers, process>>

NextTruncate ==
  \/ TruncCreateDimension
  \/ TruncPopulate
  \/ TruncCreateFactTable
  \/ TruncPopulateFactTable
  \/ Truncate

SpecTruncate == Init /\ [][NextTruncate]_vars

\* the fact rows of d that hold a key of dimension n
DependentRows(d, n) ==
  UNION {{[table |-> f, row |-> r] : r \in d.fact_rows[f]}
           : f \in Referencing(d, n)}

\* every key of every fact row is the key of a row of its dimension
NoDanglingKey(d) ==
  \A t \in d.fact_tables : \A r \in d.fact_rows[t.name] :
    \A n \in Range(t.dimensions) : r.keys[n] \in Ids(d.rows[n])

\* C21: truncate on a dimension whose table exists keeps every table and
\* registry row; when it succeeds the dimension holds no row, the rows of
\* the other dimensions are kept and, with cascade, no fact row that held a
\* key of the dimension remains, while without cascade no fact row is
\* removed; without cascade it fails with a store error whenever a fact row
\* holds a key of the dimension; a failed truncate removes no row at all.
\* Whatever the operation, no fact row holds a key that is not the key of
\* a row of its dimension.
C21_TruncateKeepsReferences ==
  [][ /\ NoDanglingKey(db')
      /\ (result'.op = "truncate" /\ result'.name \in TableNames(db))
           => LET n == result'.name
              IN  /\ db'.dimension_tables = db.dimension_tables
                  /\ db'.dimension_registry = db.dimension_registry
                  /\ db'.fact_tables = db.fact_tables
                  /\ db'.fact_table_registry = db.fact_table_registry
                  /\ result'.outcome \in {"ok"} \cup {"NotSupportedError"}
                                              \cup StoreErrors
                  /\ result'.outcome = "ok"
                       => /\ db'.rows[n] = {}
                          /\ \A o \in DimNames \ {n} :
                               db'.rows[o] = db.rows[o]
                          /\ DependentRows(db', n) = {}
                          /\ ~result'.cascade => db'.fact_rows = db.fact_rows
                  /\ (~result'.cascade /\ DependentRows(db, n) # {})
                       => result'.outcome # "ok"
                  /\ result'.outcome # "ok" => db' = db ]_vars

\* a truncate without cascade was refused while a fact row held a key of
\* the dimension, and the rows of both tables are still there
C21_Witness ==
  /\ result.op = "truncate"
  /\ ~result.cascade
  /\ result.outcome = "NotSupportedError"
  /\ DependentRows(db, result.name) # {}
  /\ db.rows[result.name] # {}

(***************************************************************************)
(* Concurrent create_dimension calls.  Two processes create a dimension of *)
(* the same name, each on its own connection; a call advances one store    *)
(* round trip at a time.  Inside `with connection.begin()` the statements  *)
(* of a process are staged (table, row) and become visible to the other    *)
(* process at the commit.  The store checks the uniqueness of a name when  *)
(* the statement runs: against the committed catalog, and against a row    *)
(* another transaction has staged, in which case the statement waits for   *)
(* that transaction to end.                                                *)
(***************************************************************************)
RaceInstances ==
  {TaxonDimension("d1"), RasterDimension("d1", NoValue),
   RasterDimension("d1", Some(FirstCuts))}

Finished(dim, outcome) ==
  [pc |-> "done", dim |-> Some(dim), table |-> FALSE, row |-> FALSE,
   outcome |-> outcome]

\* another process has staged a table or a registry row of that name (first
\* a store that lets concurrent transactions stage the same name)
BlockedNever(cs, p, name) == FALSE

Blocked(cs, p, name) ==
  \E q \in Callers \ {p} :
    /\ cs[q].dim # NoValue
    /\ TheValue(cs[q].dim).name = name
    /\ (cs[q].table \/ cs[q].row)

\* the exit of `with connection.begin()`: what the process staged is
\* published
Commit(d, c) ==
  LET dim == TheValue(c.dim)
  IN  [d EXCEPT
        !.dimension_tables =
            @ \cup (IF c.table
                    THEN TableCreate(EmptyDb, dim).db.dimension_tables
                    ELSE {}),
        !.dimension_registry =
            @ \cup (IF c.row
                    THEN RegistryInsert(EmptyDb, dim).db.dimension_registry
                    ELSE {}),
        !.rows[dim.name] = {}]

\* connect, then `if self.is_created(connection): ... return`
RaceCall(p) ==
  /\ callers[p].pc = "idle"
  /\ \E dim \in RaceInstances :
       callers' = [callers EXCEPT ![p] =
                     IF is_created(db, dim)
                     THEN Finished(dim, "skipped")
                     ELSE [Idle EXCEPT !.pc = "begin", !.dim = Some(dim)]]
  /\ UNCHANGED <<db, model_dict, result, process>>

\* self.table.create(connection) finds the name staged by the other
\* process and waits
RaceTableCreateWaits(p) ==
  /\ callers[p].pc = "begin"
  /\ Blocked(callers, p, TheValue(callers[p].dim).name)
  /\ callers' = [callers EXCEPT ![p].pc = "waiting"]
  /\ UNCHANGED <<db, model_dict, result, process>>

\* self.table.create(connection): a name of the committed catalog is
\* refused, as a duplicate table or, after a wait, as a uniqueness
\* violation of the catalog
RaceTableCreate(p) ==
  /\ callers[p].pc \in {"begin", "waiting"}
  /\ LET dim == TheValue(callers[p].dim)
         r == TableCreate(db, dim)
     IN  /\ ~Blocked(callers, p, dim.name)
         /\ callers' = [callers EXCEPT ![p] =
                          IF r.err = ""
                          THEN [@ EXCEPT !.pc = "created", !.table = TRUE]
                          ELSE Finished(dim,
                                 IF callers[p].pc = "waiting"
                                 THEN "IntegrityError" ELSE r.err)]
  /\ UNCHANGED <<db, model_dict, result, process>>

\* connection.execute(ins)
RaceRegistryInsert(p) ==
  /\ callers[p].pc = "created"
  /\ LET dim == TheValue(callers[p].dim)
         r == RegistryInsert(db, dim)
     IN  callers' = [callers EXCEPT ![p] =
                       IF r.err = ""
                       THEN [@ EXCEPT !.pc = "inserted", !.row = TRUE]
                       ELSE Finished(dim, r.err)]
  /\ UNCHANGED <<db, model_dict, result, process>>

RaceCommit(p) ==
  /\ callers[p].pc = "inserted"
  /\ db' = Commit(db, callers[p])
  /\ callers' = [callers EXCEPT ![p] =
                   Finished(TheValue(callers[p].dim), "ok")]
  /\ UNCHANGED <<model_dict, result, process>>

\* the store fails a statement or the commit: the transaction is rolled
\* back and the error raised
RaceStoreFails(p) ==
  /\ callers[p].pc \in {"begin", "created", "inserted"}
  /\ callers' = [callers EXCEPT ![p] =
                   Finished(TheValue(callers[p].dim), "OperationalError")]
  /\ UNCHANGED <<db, model_dict, result, process>>

NextRace ==
  \E p \in Callers :
    \/ RaceCall(p)
    \/ RaceTableCreateWaits(p)
    \/ RaceTableCreate(p)
    \/ RaceRegistryInsert(p)
    \/ RaceCommit(p)
    \/ RaceStoreFails(p)

SpecRace == Init /\ [][NextRace]_vars

\* the errors by which the store refuses a name that is already taken
UniquenessViolations == {"IntegrityError", "ProgrammingError"}

\* C15: when two processes concurrently create the same dimension name,
\* the committed store never holds a table without its registry row, a row
\* without its table or two of either; and when both calls have ended,
\* the store not having failed, exactly one table and one registry row
\* exist for the name, one call succeeded, and the other was skipped or
\* got a uniqueness violation of the store.
C15_RaceLeavesOneDimension ==
  /\ TableNames(db) = RegisteredNames(db)
  /\ \A n \in DimNames :
       /\ Cardinality({t \in db.dimension_tables : t.name = n}) <= 1
       /\ Cardinality({r \in db.dimension_registry : r.name = n}) <= 1
  /\ ( /\ \A p \in Callers : callers[p].pc = "done"
       /\ \A p \in Callers : callers[p].outcome # "OperationalError" )
      => /\ Cardinality(db.dimension_tables) = 1
         /\ Cardinality(db.dimension_registry) = 1
         /\ Cardinality({p \in Callers : callers[p].outcome = "ok"}) = 1
         /\ \A p \in Callers :
              callers[p].outcome \in {"ok", "skipped"} \cup UniquenessViolations

\* one process created the dimension; the other, which had passed the
\* existence check and waited for the first to commit, was refused
C15_Witness ==
  /\ \A p \in Callers : callers[p].pc = "done"
  /\ \E p \in Callers : callers[p].outcome = "ok"
  /\ \E p \in Callers : callers[p].outcome = "IntegrityError"
  /\ Cardinality(db.dimension_tables) = 1

(***************************************************************************)
(* The model-loading specification: a declaration is given; dimensions are *)
(* created and dropped, and the declaration is loaded (any number of       *)
(* times).                                                                 *)
(***************************************************************************)
\* the dimension entries a declaration may hold: no dimension_type, a
\* registered type without or with its arguments, a type key that is not
\* registered
DeclaredDimensions ==
  { [name |-> Some(n), dimension_type |-> t[1], cuts |-> t[2]] :
      n \in DimNames,
      t \in { <<NoValue, NoValue>>,
              <<Some("RASTER_DIMENSION"), Some(FirstCuts)>>,
              <<Some("UNKNOWN_DIMENSION"), NoValue>> } }

SeqsUpTo(S, n) == UNION {[1..k -> S] : k \in 1..n}

\* "dx" is declared by no dimension entry
DeclaredFactTables ==
  { [name |-> "f1", dimensions |-> ds, measures |-> <<"m1">>,
     aggregates |-> <<[name |-> "total", function |-> "sum",
                       measure |-> "m1"]>>] :
      ds \in {<<"d1">>, <<"dx">>, <<"d1", "dx">>, <<"d2", "d1">>} }

Declarations ==
  { [dimensions |-> ds, fact_tables |-> fs] :
      ds \in SeqsUpTo(DeclaredDimensions, MaxDeclDims),
      fs \in {<<>>} \cup {<<f>> : f \in DeclaredFactTables} }

ModelInstances ==
  {TaxonDimension(n) : n \in DimNames}
    \cup {RasterDimension(n, Some(FirstCuts)) : n \in DimNames}

InitModel ==
  /\ db = EmptyDb
  /\ model_dict \in Declarations
  /\ result = NoResult
  /\ callers = [p \in Callers |-> Idle]
  /\ process = InitProcess

ModelCreateDimension ==
  \E dim \in ModelInstances :
    LET r == create_dimension(db, dim, 0)
    IN  /\ db' = r.db
        /\ result' = Observed("create_dimension", dim.name, r.outcome)
        /\ UNCHANGED <<model_dict, callers, process>>

ModelDropDimension ==
  \E dim \in ModelInstances :
    LET r == drop_dimension(db, dim, 0)
    IN  /\ db' = r.db
        /\ result' = Observed("drop_dimension", dim.name, r.outcome)
        /\ UNCHANGED <<model_dict, callers, process>>

LoadModel ==
  LET r == load_model_from_dict(db, model_dict)
  IN  /\ model_dict' = r.model_dict
      /\ result' = [Observed("load_model_from_dict", "", r.outcome)
                      EXCEPT !.model = r.model]
      /\ UNCHANGED <<db, callers, process>>

NextModel ==
  \/ ModelCreateDimension
  \/ ModelDropDimension
  \/ LoadModel

SpecModel == InitModel /\ [][NextModel]_vars

(***************************************************************************)
(* Properties of the model-loading specification.                          *)
(***************************************************************************)
\* every entry of the declaration still has its name
Named(dict) ==
  \A i \in DOMAIN dict.dimensions : dict.dimensions[i].name # NoValue

DeclaredNames(dict) ==
  {TheValue(dict.dimensions[i].name) : i \in DOMAIN dict.dimensions}

\* the last entry that declares name n (a later entry overrides an earlier)
LastEntry(dict, n) ==
  LET at == {i \in DOMAIN dict.dimensions :
               dict.dimensions[i].name = Some(n)}
  IN  dict.dimensions[Max(at)]

\* the entry can be built when its name is not registered: its type is
\* declared and registered, and the type accepts the declared arguments
Buildable(e) ==
  /\ e.dimension_type # NoValue
  /\ TheValue(e.dimension_type) \in DIMENSION_TYPE_REGISTRY
  /\ Instantiate(TheValue(e.dimension_type), TheValue(e.name), e).outcome
       = "ok"

\* every fact table lists declared dimension names only
Resolved(dict) ==
  \A i \in DOMAIN dict.fact_tables :
    Range(dict.fact_tables[i].dimensions) \subseteq DeclaredNames(dict)

\* C9: for every declared dimension, the loaded model holds the dimension
\* loaded through the DimensionManager when the name is registered (its
\* dimension_type may be absent), and otherwise a fresh instance of the
\* declared type built from the declared arguments.
C9_ReuseOrInstantiate ==
  [][ ( /\ result'.op = "load_model_from_dict"
        /\ Named(model_dict)
        /\ Resolved(model_dict)
        /\ \A i \in DOMAIN model_dict.dimensions :
             LET e == model_dict.dimensions[i]
             IN  TheValue(e.name) \notin RegisteredNames(db) => Buildable(e) )
        => /\ result'.outcome = "ok"
           /\ \A n \in DeclaredNames(model_dict) :
                LET e == LastEntry(model_dict, n)
                    held == TheValue(result'.model).dimensions[n]
                IN  IF n \in RegisteredNames(db)
                    THEN Some(held) = get_dimension(db, n).dim
                    ELSE Some(held) = Instantiate(
                           TheValue(e.dimension_type), n, e).dim ]_vars

\* the declaration names a dimension type key that cannot be resolved, for
\* a dimension that is not registered
UnresolvedType(dict, d) ==
  \E i \in DOMAIN dict.dimensions :
    LET e == dict.dimensions[i]
    IN  /\ TheValue(e.name) \notin RegisteredNames(d)
        /\ e.dimension_type # NoValue
        /\ TheValue(e.dimension_type) \notin DIMENSION_TYPE_REGISTRY

\* C10: when a fact table of the declaration lists a dimension name that
\* the declaration does not declare, or an unregistered dimension names a
\* type key that is not registered, load_model_from_dict raises, returns no
\* model and leaves the database untouched.
C10_FailsFastWithoutDDL ==
  [][ ( /\ result'.op = "load_model_from_dict"
        /\ Named(model_dict)
        /\ (~Resolved(model_dict) \/ UnresolvedType(model_dict, db)) )
        => /\ result'.outcome # "ok"
           /\ result'.model = NoValue
           /\ db' = db ]_vars

\* every declared dimension is registered and loaded, and the fact table
\* names a dimension that was not declared
C10_Witness ==
  /\ result.op = "load_model_from_dict"
  /\ result.outcome = "KeyError"
  /\ result.model = NoValue
  /\ model_dict.dimensions # <<>>
  /\ \A i \in DOMAIN model_dict.dimensions :
       model_dict.dimensions[i].name = NoValue
  /\ RegisteredNames(db) = DimNames

\* what two models are compared by: the names of the dimensions, the fact
\* tables and the aggregates
Outline(model) ==
  [ dimensions |-> DOMAIN model.dimensions,
    fact_tables |-> model.fact_tables,
    aggregates |-> model.aggregates ]

\* C28: load_model_from_dict leaves the declaration it is given as it was;
\* a load that directly follows a successful load of the declaration, the
\* store being unchanged, succeeds too and yields a model of the same
\* dimension names, fact tables and aggregates.
C28_LoadLeavesDeclaration ==
  [][ (result'.op = "load_model_from_dict")
        => /\ model_dict' = model_dict
           /\ (result.op = "load_model_from_dict" /\ result.outcome = "ok")
                => /\ result'.outcome = "ok"
                   /\ Outline(TheValue(result'.model))
                        = Outline(TheValue(result.model)) ]_vars

(***************************************************************************)
(* The cubes descriptor: get_cubes_dict of a dimension and                 *)
(* generate_cubes_model of a dimensional model.  A Python dict is a        *)
(* function; an attribute of a level is either a bare string (Bare) or a   *)
(* {name, label} dict.                                                     *)
(***************************************************************************)
NIAMOTO_FACT_TABLES_SCHEMA == "niamoto_fact_tables"
NIAMOTO_DIMENSIONS_SCHEMA == "niamoto_dimensions"

EXCLUDED_DIMENSION_ATTRIBUTE_TYPES == {"Geography", "Geometry"}

\* a string where a dict is expected
Bare(s) == [bare |-> s]

\* dict.get(k, default)
Get(dict, k, default) == IF k \in DOMAIN dict THEN dict[k] ELSE default

\* dict.update(other)
Update(dict, other) ==
  [x \in DOMAIN dict \cup DOMAIN other |->
     IF x \in DOMAIN other THEN other[x] ELSE dict[x]]

get_description(dim) ==
  CASE dim.type_key = "RASTER_DIMENSION" ->
         "Raster dimension, values are extracted from a registered raster."
    [] dim.type_key = "TAXON_DIMENSION" -> "Taxon dimension."
    [] OTHER -> "Generic dimension."

get_column_labels(dim) == dim.column_labels

get_cubes_attributes(dim) ==
  LET kept == SelectSeq(dim.columns,
                LAMBDA c : c.type \notin EXCLUDED_DIMENSION_ATTRIBUTE_TYPES)
      dim_attributes == <<PK_COLUMN_NAME>> \o [i \in DOMAIN kept |-> kept[i].name]
      column_labels == get_column_labels(dim)
  IN  [i \in DOMAIN dim_attributes |->
         [name |-> dim_attributes[i],
          label |-> Get(column_labels, dim_attributes[i], dim_attributes[i])]]

\* a variant in which every dimension contributes a join of its own
get_cubes_joinsOwn(dim) ==
  << [master |-> [schema |-> NIAMOTO_DIMENSIONS_SCHEMA, table |-> dim.name,
                  column |-> PK_COLUMN_NAME],
      detail |-> [schema |-> NIAMOTO_DIMENSIONS_SCHEMA, table |-> dim.name,
                  column |-> PK_COLUMN_NAME]] >>

get_cubes_joins(dim) == <<>>

get_cubes_mappings(dim) == <<>>

\* a variant without the override of RasterDimension
get_cubes_levelsBase(dim) ==
  << [name |-> dim.name, attributes |-> get_cubes_attributes(dim)] >>

\* BaseDimension.get_cubes_levels, and its override in RasterDimension
get_cubes_levels(dim) ==
  IF dim.type_key = "RASTER_DIMENSION" /\ dim.cuts # NoValue
  THEN << [name |-> "category", attributes |-> <<Bare("category")>>],
          [name |-> dim.name,
           attributes |-> <<Bare("id"), Bare(dim.name)>>] >>
  ELSE << [name |-> dim.name, attributes |-> get_cubes_attributes(dim)] >>

get_cubes_hierarchies(dim) ==
  LET levels == get_cubes_levels(dim)
  IN  << [name |-> "default",
          levels |-> [i \in DOMAIN levels |-> levels[i].name]] >>

get_cubes_dict(dim) ==
  [ name |-> dim.name,
    label |-> dim.name,
    description |-> get_description(dim),
    levels |-> get_cubes_levels(dim),
    hierarchies |-> get_cubes_hierarchies(dim) ]

\* a variant of the loop below that leaves out the key mappings
RECURSIVE cubes_dimensionsNoKeys(_, _, _, _)
cubes_dimensionsNoKeys(model, dim_order, i, acc) ==
  IF i > Len(dim_order) THEN acc
  ELSE LET v == model.dimensions[dim_order[i]]
       IN  cubes_dimensionsNoKeys(model, dim_order, i + 1,
             [ dims |-> Append(acc.dims, get_cubes_dict(v)),
               joins |-> acc.joins \o get_cubes_joins(v),
               mappings |-> Update(acc.mappings, get_cubes_mappings(v)) ])

\* the first loop of generate_cubes_model, from dimension number i on
RECURSIVE cubes_dimensions(_, _, _, _)
cubes_dimensions(model, dim_order, i, acc) ==
  IF i > Len(dim_order) THEN acc
  ELSE LET v == model.dimensions[dim_order[i]]
       IN  cubes_dimensions(model, dim_order, i + 1,
             [ dims |-> Append(acc.dims, get_cubes_dict(v)),
               joins |-> acc.joins \o get_cubes_joins(v),
               mappings |-> Update(Put(acc.mappings, v.name, v.name \o ".id"),
                                   get_cubes_mappings(v)) ])

\* the cube of fact table v, under key k of self.fact_tables
cube(model, k, joins, mappings) ==
  LET v == model.fact_tables[k]
  IN  [ name |-> v.name,
        label |-> v.name,
        dimensions |-> [i \in DOMAIN v.dimensions |-> v.dimensions[i].name],
        measures |-> [i \in DOMAIN v.columns |-> [name |-> v.columns[i].name]],
        joins |-> [i \in DOMAIN v.dimensions |->
                     [master |-> [schema |-> NIAMOTO_FACT_TABLES_SCHEMA,
                                  table |-> v.name,
                                  column |-> v.dimensions[i].name \o "_id"],
                      detail |-> [schema |-> NIAMOTO_DIMENSIONS_SCHEMA,
                                  table |-> v.dimensions[i].name,
                                  column |-> "id"]]]
                   \o joins,
        mappings |-> mappings,
        aggregates |-> model.aggregates[k] ]

\* the dicts are iterated in the orders dim_order and ft_order;
\* self.aggregates[k] raises KeyError for a fact table without aggregates
generate_cubes_model(model, dim_order, ft_order) ==
  LET acc == cubes_dimensions(model, dim_order, 1,
               [dims |-> <<>>, joins |-> <<>>, mappings |-> <<>>])
  IN  IF \E k \in Range(ft_order) : k \notin DOMAIN model.aggregates
      THEN [outcome |-> "KeyError", cubes |-> NoValue]
      ELSE [outcome |-> "ok",
            cubes |-> Some(
              [ dimensions |-> acc.dims,
                cubes |-> [i \in DOMAIN ft_order |->
                             cube(model, ft_order[i], acc.joins,
                                  acc.mappings)] ])]

\* generate_cubes_model() on the model the caller holds
GenerateCubesModel ==
  /\ result.model # NoValue
  /\ LET model == TheValue(result.model)
     IN  \E dim_order \in Orders(DOMAIN model.dimensions),
            ft_order \in Orders(DOMAIN model.fact_tables) :
           LET r == generate_cubes_model(model, dim_order, ft_order)
           IN  result' = [result EXCEPT !.op = "generate_cubes_model",
                                        !.outcome = r.outcome,
                                        !.cubes = r.cubes]
  /\ UNCHANGED <<db, model_dict, callers, process>>

(***************************************************************************)
(* The descriptor specification: the caller holds a model built with the   *)
(* constructors, and generates its descriptor.                             *)
(***************************************************************************)
\* a dimension type of the caller: a subclass of BaseDimension that defines
\* its key and description and takes the columns and labels of the caller
GenericDimension(name, columns, column_labels) ==
  BaseDimension("GENERIC_DIMENSION", name, columns, "label",
                EmptyProperties, column_labels)

SecondCuts == [cuts |-> <<10, 20>>, labels |-> <<"low", "medium", "high">>]

\* cut-points that come without the label of the last bucket
ShortCuts == [cuts |-> <<10>>, labels |-> <<"low">>]

\* RasterDimension.__init__ as the caller sees it: the assertion on the
\* cut-points fails before the instance is built
RasterDimension_init(raster_name, cuts) ==
  IF cuts # NoValue
       /\ Len(TheValue(cuts).labels) # Len(TheValue(cuts).cuts) + 1
  THEN [outcome |-> "AssertionError", dim |-> NoValue]
  ELSE [outcome |-> "ok", dim |-> Some(RasterDimension(raster_name, cuts))]

\* the dimensions of name n that the caller puts into a model
CubeInstances(n) ==
  { GenericDimension(n, cs, ls) :
      cs \in { <<Column("c1", "String"), Column("c2", "Float")>>,
               <<Column("c1", "String"), Column("geom", "Geometry")>> },
      ls \in { <<>>, [c \in {"c1"} |-> "First"] } }
    \cup { RasterDimension(n, c) :
             c \in {NoValue, Some(FirstCuts), Some(SecondCuts)} }
    \cup { TaxonDimension(n) }

Sum(aggregate_name, m) ==
  [name |-> aggregate_name, function |-> "sum", measure |-> m]

\* the fact tables of a model over the dimensions dims: each fact table is
\* over some of the dimensions, in some order, with one or two measures
CubeFactTable(f, dims) ==
  UNION { { BaseFactTable(f, [k \in DOMAIN o |-> dims[o[k]]],
                          [k \in DOMAIN ms |-> Column(ms[k], "Float")]) :
              o \in Orders(sub), ms \in {<<"m1">>, <<"m1", "m2">>} } :
          sub \in (SUBSET DOMAIN dims) \ {{}} }

CubeFactTables(dims) ==
  UNION { { fts \in [fs -> UNION {CubeFactTable(f, dims) : f \in fs}] :
              \A f \in fs : fts[f].name = f } :
          fs \in SUBSET FactNames }

\* the models of the caller: every fact table has its aggregates
CubeModels ==
  UNION { UNION { { DimensionalModel(dims, fts,
                      [f \in DOMAIN fts |-> <<Sum("total", "m1")>>]) :
                      fts \in CubeFactTables(dims) } :
                  dims \in { ds \in [names -> UNION {CubeInstances(n) :
                                                       n \in names}] :
                               \A n \in names : ds[n].name = n } } :
          names \in (SUBSET DimNames) \ {{}} }

InitCubes ==
  /\ db = EmptyDb
  /\ model_dict = EmptyModelDict
  /\ \E model \in CubeModels :
       result = [Observed("DimensionalModel", "", "ok")
                   EXCEPT !.model = Some(model)]
  /\ callers = [p \in Callers |-> Idle]
  /\ process = InitProcess

\* RasterDimension(raster_name, cuts) called by the caller
ConstructRasterDimension ==
  \E n \in DimNames,
     cuts \in {NoValue, Some(FirstCuts), Some(SecondCuts), Some(ShortCuts)} :
    LET r == RasterDimension_init(n, cuts)
    IN  /\ result' = [Observed("RasterDimension", n, r.outcome)
                        EXCEPT !.dim = r.dim, !.args = <<cuts>>]
        /\ UNCHANGED <<db, model_dict, callers, process>>

NextCubes ==
  \/ GenerateCubesModel
  \/ ConstructRasterDimension

SpecCubes == InitCubes /\ [][NextCubes]_vars

\* the join of fact table f to dimension n
FactJoin(f, n) ==
  [master |-> [schema |-> NIAMOTO_FACT_TABLES_SCHEMA, table |-> f,
               column |-> n \o "_id"],
   detail |-> [schema |-> NIAMOTO_DIMENSIONS_SCHEMA, table |-> n,
               column |-> "id"]]

\* the joins of a cube whose master is table f and whose detail is table n
JoinsTo(c, f, n) ==
  {i \in DOMAIN c.joins :
     c.joins[i].master.table = f /\ c.joins[i].detail.table = n}

\* a model of one generic dimension and one fact table with the measure m1
OneGenericOneFact(model) ==
  /\ Cardinality(DOMAIN model.dimensions) = 1
  /\ \A n \in DOMAIN model.dimensions :
       model.dimensions[n].type_key = "GENERIC_DIMENSION"
  /\ Cardinality(DOMAIN model.fact_tables) = 1
  /\ \A f \in DOMAIN model.fact_tables :
       model.fact_tables[f].columns = <<Column("m1", "Float")>>

\* C22: generate_cubes_model emits one cube per fact table F of the model,
\* named F, whose dimensions are the names of F's dimensions in order,
\* whose measures are [{name: m}] for F's measures in order and whose joins
\* hold, for every dimension D of F, exactly one join between F and D, from
\* F."D_id" to D."id"; for one generic dimension and one fact table with
\* the measure m1 the joins are that one join and the measures are
\* [{name: "m1"}].
C22_OneCubePerFactTable ==
  (result.op = "generate_cubes_model")
    => LET model == TheValue(result.model)
           cubes == TheValue(result.cubes).cubes
       IN  /\ result.outcome = "ok"
           /\ Len(cubes) = Cardinality(DOMAIN model.fact_tables)
           /\ {cubes[i].name : i \in DOMAIN cubes} = DOMAIN model.fact_tables
           /\ \A i \in DOMAIN cubes :
                LET c == cubes[i]
                    F == model.fact_tables[c.name]
                IN  /\ c.dimensions
                         = [k \in DOMAIN F.dimensions |-> F.dimensions[k].name]
                    /\ c.measures
                         = [k \in DOMAIN F.columns |->
                              [name |-> F.columns[k].name]]
                    /\ \A k \in DOMAIN F.dimensions :
                         LET D == F.dimensions[k].name
                         IN  /\ Cardinality(JoinsTo(c, F.name, D)) = 1
                             /\ \A j \in JoinsTo(c, F.name, D) :
                                  c.joins[j] = FactJoin(F.name, D)
                    /\ OneGenericOneFact(model)
                         => /\ Len(c.joins) = 1
                            /\ c.measures = <<[name |-> "m1"]>>

\* the descriptor of a model of one generic dimension and one fact table
\* with the measure m1
C22_Witness ==
  /\ result.op = "generate_cubes_model"
  /\ result.outcome = "ok"
  /\ OneGenericOneFact(TheValue(result.model))
  /\ Len(TheValue(result.cubes).cubes) = 1

\* the attributes over all the levels of an entry of the descriptor
LevelAttributes(entry) ==
  UNION {Range(entry.levels[i].attributes) : i \in DOMAIN entry.levels}

\* the primary key and the declared columns that are not geometry-typed,
\* each as a {name, label} dict
ExpectedAttributes(dim) ==
  { [name |-> c, label |-> Get(dim.column_labels, c, c)] :
      c \in {PK_COLUMN_NAME}
              \cup {dim.columns[i].name :
                      i \in {k \in DOMAIN dim.columns :
                               dim.columns[k].type
                                 \notin EXCLUDED_DIMENSION_ATTRIBUTE_TYPES}} }

\* C23: for every dimension of a model, of every type, the attributes over
\* all the levels of its entry in the descriptor are the primary key and
\* every declared column that is not geometry-typed, each as a {name, label}
\* dict and each listed once; no geometry-typed column is listed.
C23_AttributesCoverColumns ==
  (result.op = "generate_cubes_model" /\ result.outcome = "ok")
    => LET model == TheValue(result.model)
           dims == TheValue(result.cubes).dimensions
       IN  \A i \in DOMAIN dims :
             LET dim == model.dimensions[dims[i].name]
             IN  LevelAttributes(dims[i]) = ExpectedAttributes(dim)

\* N cut-points with N + 1 labels
Bucketed(cuts) == Len(TheValue(cuts).labels) = Len(TheValue(cuts).cuts) + 1

LevelNames(entry) == [k \in DOMAIN entry.levels |-> entry.levels[k].name]

\* C24: a raster dimension with cut-points has three columns and its entry
\* in the descriptor exposes exactly two levels, category above the level
\* of the raw value; without cut-points it has two columns and exposes one
\* level.  The cut-points of a raster dimension are N cut-points with N + 1
\* labels: the constructor builds no instance from any other pair.  The
\* default hierarchy lists exactly the exposed levels, in their order.
C24_RasterLevels ==
  /\ (result.op = "generate_cubes_model" /\ result.outcome = "ok")
       => LET model == TheValue(result.model)
              dims == TheValue(result.cubes).dimensions
          IN  \A i \in DOMAIN dims :
                LET dim == model.dimensions[dims[i].name]
                IN  /\ dim.type_key = "RASTER_DIMENSION"
                         => IF dim.cuts # NoValue
                            THEN /\ Len(dim.columns) = 3
                                 /\ LevelNames(dims[i])
                                      = <<"category", dim.name>>
                                 /\ Bucketed(dim.cuts)
                            ELSE /\ Len(dim.columns) = 2
                                 /\ LevelNames(dims[i]) = <<dim.name>>
                    /\ dims[i].hierarchies
                         = <<[name |-> "default",
                              levels |-> LevelNames(dims[i])]>>
  /\ (result.op = "RasterDimension")
       => LET cuts == result.args[1]
          IN  IF cuts = NoValue \/ Bucketed(cuts)
              THEN /\ result.outcome = "ok"
                   /\ TheValue(result.dim).cuts = cuts
                   /\ Len(TheValue(result.dim).columns)
                        = IF cuts = NoValue THEN 2 ELSE 3
              ELSE /\ result.outcome = "AssertionError"
                   /\ result.dim = NoValue

\* the descriptor of a model that holds a raster dimension with two
\* cut-points and three labels
C24_Witness ==
  /\ result.op = "generate_cubes_model"
  /\ result.outcome = "ok"
  /\ \E n \in DOMAIN TheValue(result.model).dimensions :
       LET dim == TheValue(result.model).dimensions[n]
       IN  /\ dim.type_key = "RASTER_DIMENSION"
           /\ dim.cuts = Some(SecondCuts)
           /\ \E i \in DOMAIN TheValue(result.cubes).dimensions :
                /\ TheValue(result.cubes).dimensions[i].name = n
                /\ Len(TheValue(result.cubes).dimensions[i].levels) = 2

(***************************************************************************)
(* The loaded-descriptor specification: the model-loading specification,   *)
(* in which the caller also generates the descriptor of the model it has   *)
(* loaded.                                                                 *)
(***************************************************************************)
NextLoadedCubes ==
  \/ ModelCreateDimension
  \/ ModelDropDimension
  \/ LoadModel
  \/ GenerateCubesModel

SpecLoadedCubes == InitModel /\ [][NextLoadedCubes]_vars

\* the entries of the top-level dimensions list that carry the name n
EntriesNamed(descriptor, n) ==
  {i \in DOMAIN descriptor.dimensions : descriptor.dimensions[i].name = n}

\* C30: in the descriptor of a model built by load_model_from_dict, every
\* name listed in the dimensions of a cube and every detail table of a join
\* of a cube is the name of exactly one entry of the top-level dimensions
\* list, and the mappings of the cube map that name to "<name>.id".
C30_CubeNamesResolve ==
  (result.op = "generate_cubes_model")
    => /\ result.outcome = "ok"
       /\ LET descriptor == TheValue(result.cubes)
          IN  \A i \in DOMAIN descriptor.cubes :
                LET c == descriptor.cubes[i]
                IN  \A n \in Range(c.dimensions)
                               \cup {c.joins[j].detail.table :
                                       j \in DOMAIN c.joins} :
                      /\ Cardinality(EntriesNamed(descriptor, n)) = 1
                      /\ n \in DOMAIN c.mappings
                      /\ c.mappings[n] = n \o ".id"

\* the descriptor of a loaded model whose fact table is over two dimensions
C30_Witness ==
  /\ result.op = "generate_cubes_model"
  /\ result.outcome = "ok"
  /\ \E i \in DOMAIN TheValue(result.cubes).cubes :
       /\ Len(TheValue(result.cubes).cubes[i].dimensions) = 2
       /\ Len(TheValue(result.cubes).cubes[i].joins) = 2
  /\ Len(TheValue(result.cubes).dimensions) = 2

(***************************************************************************)
(* The process specification: the caller defines dimension classes,        *)
(* constructs dimensions and creates the dimensions it holds.              *)
(***************************************************************************)
\* the class statements of the caller: a dimension type of its own, a
\* subclass of BaseDimension that defines neither key nor description, one
\* that defines a key only, and a subclass of TaxonDimension, which
\* inherits get_key() and get_description()
DefinedClasses ==
  { ClassStatement("GenericDimension", Some("GENERIC_DIMENSION"),
                   Some("Generic dimension.")),
    ClassStatement("AbstractDimension", NoValue, NoValue),
    ClassStatement("KeyOnlyDimension", Some("KEY_ONLY_DIMENSION"), NoValue),
    ClassStatement("MyTaxonDimension", Some("TAXON_DIMENSION"),
                   Some("Taxon dimension.")) }

DefineClass ==
  \E cls \in DefinedClasses :
    /\ process' = [process EXCEPT !.registry = DimensionMeta_init(@, cls)]
    /\ result' = Observed("class", cls.class, "ok")
    /\ UNCHANGED <<db, model_dict, callers>>

\* The constructor calls of the caller for the name n.  shared tells that
\* the call passes no properties, so that self.properties is the dict
\* object of the default argument, which
\* self.properties['column_labels'] = column_labels then writes to.
ConstructorCalls(n) ==
  { [dim |-> TaxonDimension(n), shared |-> TRUE],
    [dim |-> RasterDimension(n, Some(FirstCuts)), shared |-> FALSE] }
    \cup { [dim |-> GenericDimension(n, <<Column("c1", "String")>>, ls),
            shared |-> TRUE] : ls \in { <<>>, [c \in {"c1"} |-> "First"] } }

\* BaseDimension.__init__ on the objects of the process
BaseDimension_init(pr, call) ==
  [pr EXCEPT
     !.default_properties = IF call.shared THEN call.dim.properties ELSE @,
     !.held = Put(@, call.dim.name, call)]

\* self.properties of a held instance, as it reads now
Properties(pr, h) ==
  IF h.shared THEN pr.default_properties ELSE h.dim.properties

Construct ==
  \E n \in DimNames :
    \E call \in ConstructorCalls(n) :
      /\ call.dim.type_key = "GENERIC_DIMENSION"
           => "GENERIC_DIMENSION" \in DOMAIN process.registry
      /\ process' = BaseDimension_init(process, call)
      /\ result' = [Observed("BaseDimension", n, "ok")
                      EXCEPT !.dim = Some(call.dim)]
      /\ UNCHANGED <<db, model_dict, callers>>

\* create_dimension() on an instance the caller holds
CreateHeld ==
  \E n \in DOMAIN process.held :
    LET h == process.held[n]
        self == [h.dim EXCEPT !.properties = Properties(process, h)]
        r == create_dimension(db, self, 0)
    IN  /\ db' = r.db
        /\ result' = [Observed("create_dimension", n, r.outcome)
                        EXCEPT !.dim = Some(h.dim), !.closed = r.closed]
        /\ UNCHANGED <<model_dict, callers, process>>

NextProcess ==
  \/ DefineClass
  \/ Construct
  \/ CreateHeld

SpecProcess == Init /\ [][NextProcess]_vars

\* C26: a class statement raises no error and leaves every entry of the
\* type registry as it was: the registration of a key that is already
\* registered, or of a class that defines no key, is skipped.
C26_RegistrationIsSkipped ==
  [][ (result'.op = "class")
        => /\ result'.outcome = "ok"
           /\ \A k \in DOMAIN process.registry :
                /\ k \in DOMAIN process'.registry
                /\ process'.registry[k] = process.registry[k] ]_vars

\* C27: the properties of every instance the caller holds, its
\* column_labels entry included, are the properties its own constructor
\* call gave it, whatever was constructed since; the registry row written
\* by create_dimension records those properties.
C27_InstancesKeepTheirProperties ==
  /\ \A n \in DOMAIN process.held :
       Properties(process, process.held[n]) = process.held[n].dim.properties
  /\ (result.op = "create_dimension" /\ result.outcome = "ok")
       => \A r \in db.dimension_registry :
            r.name = result.name
              => r.properties = TheValue(result.dim).properties

(***************************************************************************)
(* Properties of the lifecycle specification.                              *)
(***************************************************************************)
RegistryRows(d, n) == {r \in d.dimension_registry : r.name = n}

\* C1: after any sequence of create_dimension / drop_dimension calls, also
\* calls that the store fails part-way, a dimension's table exists if and
\* only if the dimension registry holds a row for its name (one row).
C1_TableIffRegistryRow ==
  /\ TableNames(db) = RegisteredNames(db)
  /\ \A n \in DimNames : Cardinality(RegistryRows(db, n)) <= 1

\* a creation failed by the store after its CREATE TABLE statement, while
\* another dimension is stored
C1_Witness ==
  /\ result.op = "create_dimension"
  /\ result.fail = 2
  /\ result.outcome = "OperationalError"
  /\ TableNames(db) # {}

\* C2: create_dimension on a dimension whose table already exists does not
\* fail (it is skipped with a warning) and leaves the database as it was,
\* with exactly one registry row for the name.
C2_CreateTwiceIdempotent ==
  [][ (result'.op = "create_dimension" /\ result'.name \in TableNames(db))
        => /\ result'.outcome = "skipped"
           /\ db' = db
           /\ Cardinality(RegistryRows(db', result'.name)) = 1 ]_vars

C2_Witness ==
  /\ result.op = "create_dimension"
  /\ result.outcome = "skipped"
  /\ result.name \in TableNames(db)

\* C3: drop_dimension on a created dimension that no fact table references,
\* when the store does not fail, returns normally and removes both the
\* table and the registry row; is_created() is false afterwards.
C3_DropAfterCreate ==
  [][ ( /\ result'.op = "drop_dimension"
        /\ result'.name \in TableNames(db)
        /\ result'.fail = 0
        /\ \A f \in db.fact_tables : result'.name \notin Range(f.dimensions) )
        => /\ result'.outcome = "ok"
           /\ result'.name \notin TableNames(db')
           /\ result'.name \notin RegisteredNames(db')
           /\ ~is_created(db', TheValue(result'.dim)) ]_vars

C3_Witness ==
  /\ result.op = "drop_dimension"
  /\ result.outcome = "ok"
  /\ ~is_created(db, TheValue(result.dim))
  /\ TableNames(db) # {}

\* C6: creating a fact table over a dimension list that holds a name with
\* no dimension registry row, at whatever position, fails with
\* DimensionNotRegisteredError and changes nothing in the database.
C6_UnregisteredDimensionRejected ==
  [][ ( /\ result'.op = "create_fact_table"
        /\ \E i \in DOMAIN result'.dims :
             result'.dims[i] \notin RegisteredNames(db) )
        => /\ result'.outcome = "DimensionNotRegisteredError"
           /\ db' = db ]_vars

\* the unregistered name comes second, after a registered one
C6_Witness ==
  /\ result.op = "create_fact_table"
  /\ result.outcome = "DimensionNotRegisteredError"
  /\ Len(result.dims) = 2
  /\ result.dims[1] \in RegisteredNames(db)
  /\ result.dims[2] \notin RegisteredNames(db)
  /\ db.fact_tables = {}

\* C7: get_dimension on a name with no registry row fails with
\* DimensionNotRegisteredError and changes no state.
C7_LoadUnregisteredFails ==
  [][ (result'.op = "get_dimension"
         /\ result'.name \notin RegisteredNames(db))
        => /\ result'.outcome = "DimensionNotRegisteredError"
           /\ db' = db
           /\ model_dict' = model_dict ]_vars

\* C8: the dimension get_dimension returns has the type, the label column
\* and the properties of the registry row, and the columns of the stored
\* table.
C8_RegistryRoundTrip ==
  (result.op = "get_dimension" /\ result.outcome = "ok")
    => \E r \in RegistryRows(db, result.name) :
         \E t \in db.dimension_tables :
           LET dim == TheValue(result.dim)
           IN  /\ t.name = result.name
               /\ dim.type_key = r.dimension_type_key
               /\ dim.label_col = r.label_column
               /\ dim.properties = r.properties
               /\ <<Column(PK_COLUMN_NAME, "Integer")>> \o dim.columns
                    = t.columns

\* the fact_table_registry rows named n
FactRegistryRows(d, n) == {r \in d.fact_table_registry : r = n}

\* C11: creating a fact table under a name that already exists, over
\* registered dimensions, raises no error and changes nothing; after any
\* number of create calls the fact-table registry holds exactly one row for
\* that name, and one row per created fact table overall.
C11_FactTableCreateIdempotent ==
  [][ /\ FactTableNames(db') = db'.fact_table_registry
      /\ ( /\ result'.op = "create_fact_table"
           /\ result'.name \in FactTableNames(db)
           /\ Range(result'.dims) \subseteq RegisteredNames(db) )
          => /\ result'.outcome = "skipped"
             /\ db' = db
             /\ Cardinality(FactRegistryRows(db', result'.name)) = 1 ]_vars

C11_Witness ==
  /\ result.op = "create_fact_table"
  /\ result.outcome = "skipped"
  /\ Cardinality(FactRegistryRows(db, result.name)) = 1

\* C12: delete_dimension on a registered dimension that no fact table
\* references, when the store does not fail, loads the dimension and drops
\* it: afterwards neither its table nor its registry row exists, whatever
\* the type and the properties it was created with.
C12_DeleteRemovesTableAndRow ==
  [][ ( /\ result'.op = "delete_dimension"
        /\ result'.name \in RegisteredNames(db)
        /\ result'.fail = 0
        /\ \A f \in db.fact_tables : result'.name \notin Range(f.dimensions) )
        => /\ result'.outcome = "ok"
           /\ result'.name \notin TableNames(db')
           /\ result'.name \notin RegisteredNames(db') ]_vars

\* a deletion that succeeded while another dimension stays stored
C12_Witness ==
  /\ result.op = "delete_dimension"
  /\ result.outcome = "ok"
  /\ result.name \notin TableNames(db)
  /\ TableNames(db) # {}

\* C16: a connection that create_dimension, drop_dimension, truncate,
\* is_created or populate opened for itself is closed when the call ends,
\* whether it ended normally, by the skip of a no-op or by an error.
C16_ConnectionReleased ==
  (result.op \in {"create_dimension", "drop_dimension", "truncate",
                  "is_created", "populate"})
    => result.closed

\* C17: is_created() returns true exactly when the store holds a table of
\* the dimension's name at the time of the call, whatever the flag set at
\* construction and whoever created or dropped the table since.
C17_IsCreatedReadsCatalog ==
  [][ (result'.op = "is_created")
        => (result'.outcome = "True" <=> result'.name \in TableNames(db)) ]_vars

\* the flag says the table exists, the catalog does not hold it (any more),
\* and another dimension is stored
C17_Witness ==
  /\ result.op = "is_created"
  /\ TheValue(result.dim).exists
  /\ result.outcome = "False"
  /\ TableNames(db) # {}

\* C14: in a create_model call no fact table's creation runs before the
\* creation of every dimension of the model has run.
C14_DimensionsBeforeFactTables ==
  (result.op = "create_model")
    => \A i \in DOMAIN result.steps :
         result.steps[i].op = "create_fact_table"
           => \A n \in Range(result.dims) :
                \E j \in 1..(i - 1) :
                  /\ result.steps[j].op = "create_dimension"
                  /\ result.steps[j].name = n

\* a call that created two dimensions and then a fact table
C14_Witness ==
  /\ result.op = "create_model"
  /\ result.outcome = "ok"
  /\ Len(result.steps) = 3
  /\ result.steps[1].outcome = "ok"
  /\ result.steps[2].outcome = "ok"
  /\ result.steps[3].op = "create_fact_table"
  /\ result.steps[3].outcome = "ok"

\* C29: after every operation each existing fact table references only
\* dimensions that are registered and whose table exists; a drop_dimension
\* or delete_dimension of a dimension that an existing fact table
\* references fails, and the table and the registry row of the dimension
\* remain.
C29_FactTablesKeepTheirDimensions ==
  /\ \A f \in db.fact_tables : \A n \in Range(f.dimensions) :
       n \in TableNames(db) /\ n \in RegisteredNames(db)
  /\ ( /\ result.op \in {"drop_dimension", "delete_dimension"}
       /\ Referencing(db, result.name) # {} )
       => /\ result.outcome \notin {"ok", "skipped"}
          /\ result.name \in TableNames(db)
          /\ result.name \in RegisteredNames(db)

\* the drop of a dimension was refused because a fact table references it
C29_Witness ==
  /\ result.op = "drop_dimension"
  /\ result.outcome = "InternalError"
  /\ Referencing(db, result.name) # {}
  /\ result.name \in TableNames(db)
  /\ result.name \in RegisteredNames(db)

====
